---- MODULE Spec2Model ----
(***************************************************************************)
(* Benchmark harness of the MongoDB / PostgreSQL comparison scripts:       *)
(* synthetic data generation, derived rates, and the data-integrity phase  *)
(* (validation probe, order-processing transactions, referential           *)
(* integrity probe, cost-of-consistency probe) of mongo_test.py and        *)
(* PostgreSQL.py, plus the driver of database_comparison.py.               *)
(*                                                                         *)
(* Text is modelled as a sequence of one-character strings so that the     *)
(* f-string formatting and the regular-expression constraints are          *)
(* computed, not assumed.                                                  *)
(***************************************************************************)
EXTENDS Integers, Sequences, FiniteSets, TLC

VARIABLES
    vprobe,               \* the customer records of a validation probe, one by one
    prov,                 \* provisioning: the schema objects and rows of the database
    battery,              \* test_4_query_flexibility: the queries run so far
    crud,                 \* test_crud_performance: position, scratch table, counts, results
    run,                  \* the run of a whole script: position, connections, outcome
    gen,                  \* the running call of generate_test_data
    rate,                 \* the rate computation being measured
    cfg,                  \* which script runs and how the backend answers
    pc,                   \* position in run_objective_3_data_integrity
    idx,                  \* loop counter of the running loop
    store,                \* database content, committed content, session state
    validation_results,   \* tally of test_data_validation
    transaction_results,  \* tally of test_multi_document_transactions
    integrity_results,    \* tally of test_referential_integrity
    performance_comparison, \* counters of analyze_consistency_performance
    tx,                   \* the last transaction issued: its statements and outcome
    obs                   \* observations for the properties (not program state)

integrityVars == <<cfg, pc, idx, store, validation_results, transaction_results,
                   integrity_results, performance_comparison, tx, obs>>

vars == <<vprobe, prov, battery, crud, run, gen, rate, integrityVars>>

\* no script is being run as a whole
RunOff == [program |-> "none"]

\* test_crud_performance is not running
CrudOff == [script |-> "none"]

\* test_4_query_flexibility is not being followed
BatteryOff == [script |-> "none"]

\* provisioning is not being followed
ProvOff == [script |-> "none"]

\* no validation probe is being followed record by record
ProbeOff == [script |-> "none"]

\* the data-integrity phase is not running
IntegrityOff ==
    /\ cfg = [backend |-> "none", lax |-> "none", pool |-> "none"]
    /\ pc = "off"
    /\ idx = 0
    /\ store = <<>>
    /\ validation_results = <<>>
    /\ transaction_results = <<>>
    /\ integrity_results = <<>>
    /\ performance_comparison = <<>>
    /\ tx = <<>>
    /\ obs = <<>>

(***************************************************************************)
(* Text helpers                                                            *)
(***************************************************************************)
DigitChars == <<"0", "1", "2", "3", "4", "5", "6", "7", "8", "9">>

IsDigit(c) == \E d \in 1..10 : DigitChars[d] = c

\* str(n) for n >= 0
RECURSIVE Decimal(_)
Decimal(n) ==
    IF n < 10 THEN <<DigitChars[n + 1]>>
    ELSE Decimal(n \div 10) \o <<DigitChars[(n % 10) + 1]>>

\* the ":0wd" part of a format specification: left-pad with zeros to width w,
\* never truncating
RECURSIVE ZeroPad(_, _)
ZeroPad(s, w) == IF Len(s) >= w THEN s ELSE ZeroPad(<<"0">> \o s, w)

\* the value of a digit string (used by the properties to read identifiers back)
RECURSIVE NumberOf(_)
NumberOf(s) ==
    IF s = <<>> THEN 0
    ELSE 10 * NumberOf(SubSeq(s, 1, Len(s) - 1))
         + ((CHOOSE d \in 1..10 : DigitChars[d] = s[Len(s)]) - 1)

Underscore == <<"_">>

(***************************************************************************)
(* generate_test_data(count, prefix)                                       *)
(***************************************************************************)
\* width of the counter in f"{prefix}_{i:06d}"
IdWidth == 6

\* largest count explored
MaxGenCount == 12

\* the prefixes the callers pass: the default "perf" and f"perf_{size}"
GenPrefixes ==
    {<<"p", "e", "r", "f">>, <<"p", "e", "r", "f">> \o Underscore \o Decimal(1000),
     <<"b", "a", "s", "i", "c">>}

\* f"{prefix}_{i:06d}", truncating the counter to one digit
ProductIdTruncated(prefix, i) == prefix \o Underscore \o ZeroPad(Decimal(i % 10), IdWidth)

\* f"{prefix}_{i:06d}"
ProductId(prefix, i) == prefix \o Underscore \o ZeroPad(Decimal(i), IdWidth)

\* the tuple / document built in the loop body; the randomly drawn attributes
\* (price, category, created_at, stock, rating, tags) are read by no guard of
\* the generator and are left out of the record
Product(prefix, i) == [id |-> ProductId(prefix, i), name_no |-> i]

GenIdle == [pc |-> "idle", count |-> 0, prefix |-> <<>>, i |-> 0, test_data |-> <<>>]

\* call: test_data = [] and the loop variable starts at 1
GenCall ==
    /\ gen.pc = "idle"
    /\ UNCHANGED <<vprobe, prov, battery, crud, run, rate, integrityVars>>
    /\ \E n \in 1..MaxGenCount, p \in GenPrefixes :
          gen' = [pc |-> "loop", count |-> n, prefix |-> p, i |-> 1, test_data |-> <<>>]

\* one iteration of "for i in range(1, count + 1)"
GenLoop ==
    /\ gen.pc = "loop"
    /\ gen.i <= gen.count
    /\ UNCHANGED <<vprobe, prov, battery, crud, run, rate, integrityVars>>
    /\ gen' = [gen EXCEPT !.test_data = Append(@, Product(gen.prefix, gen.i)),
                          !.i = @ + 1]

\* range exhausted: return test_data
GenReturn ==
    /\ gen.pc = "loop"
    /\ gen.i > gen.count
    /\ UNCHANGED <<vprobe, prov, battery, crud, run, rate, integrityVars>>
    /\ gen' = [gen EXCEPT !.pc = "returned"]

(***************************************************************************)
(* Derived rates: start_time = time.time(); <operation>;                   *)
(* elapsed = time.time() - start_time; rate = count / elapsed              *)
(*                                                                         *)
(* time.time() is a clock reading in ticks; two readings may be equal.     *)
(* A quotient is kept as the pair of its operands.                         *)
(***************************************************************************)
\* largest first clock reading and largest elapsed time explored, in ticks
MaxClock == 1
MaxElapsed == 2

\* dataset_sizes = [1000, 5000, 10000]
DatasetSizes == <<1000, 5000, 10000>>

\* range(1, 101): the comparison driver's basic products
ComparisonBasicCount == 100

\* range(100): the test_orders of the cost-of-consistency probe
SpeedOrderCount == 100

Quotient(n, d) == [num |-> n, den |-> d]

\* "x / t": ZeroDivisionError when t == 0
UnguardedRate(count, elapsed) ==
    IF elapsed = 0 THEN [raised |-> TRUE, value |-> Quotient(0, 1)]
    ELSE [raised |-> FALSE, value |-> Quotient(count, elapsed)]

\* "x / t if t > 0 else 0"
GuardedRate(count, elapsed) ==
    IF elapsed > 0 THEN [raised |-> FALSE, value |-> Quotient(count, elapsed)]
    ELSE [raised |-> FALSE, value |-> Quotient(0, 1)]

RateIdle == [pc |-> "idle", site |-> "none", count |-> 0, start |-> 0, stop |-> 0,
             value |-> Quotient(0, 1), outcome |-> "none"]

RateSiteCounts ==
    [cmp_mongo_basic  |-> {ComparisonBasicCount},
     cmp_pg_basic     |-> {ComparisonBasicCount},
     cmp_mongo_create |-> {DatasetSizes[k] : k \in 1..Len(DatasetSizes)},
     cmp_pg_create    |-> {DatasetSizes[k] : k \in 1..Len(DatasetSizes)},
     mongo_create     |-> {DatasetSizes[k] : k \in 1..Len(DatasetSizes)},
     pg_create        |-> {DatasetSizes[k] : k \in 1..Len(DatasetSizes)},
     mongo_unvalidated  |-> {SpeedOrderCount},
     pg_unconstrained   |-> {SpeedOrderCount},
     mongo_validated    |-> {0, SpeedOrderCount},
     pg_constrained     |-> {0, SpeedOrderCount}]

\* start_time = time.time(), then the timed database call, then
\* time.time() - start_time
RateTimeOperation ==
    /\ rate.pc = "idle"
    /\ \E s \in DOMAIN RateSiteCounts, t0 \in 0..MaxClock, dt \in 0..MaxElapsed :
          \E n \in RateSiteCounts[s] :
             rate' = [RateIdle EXCEPT !.pc = "timed", !.site = s, !.count = n,
                                      !.start = t0, !.stop = t0 + dt]
    /\ UNCHANGED <<vprobe, prov, battery, crud, run, gen, integrityVars>>

\* the statement that derives the rate is outside every try block: a
\* ZeroDivisionError leaves the phase method
RateStoreOrRaise(sites, r) ==
    /\ rate.pc = "timed"
    /\ rate.site \in sites
    /\ rate' = [rate EXCEPT !.pc = "computed", !.value = r.value,
                            !.outcome = IF r.raised THEN "raised" ELSE "stored"]
    /\ UNCHANGED <<vprobe, prov, battery, crud, run, gen, integrityVars>>

\* the statement is inside "try: ... except Exception as e:", which stores
\* {'error': str(e)} in place of the metrics
RateStoreOrErrorEntry(sites, r) ==
    /\ rate.pc = "timed"
    /\ rate.site \in sites
    /\ rate' = [rate EXCEPT !.pc = "computed", !.value = r.value,
                            !.outcome = IF r.raised THEN "error_entry" ELSE "stored"]
    /\ UNCHANGED <<vprobe, prov, battery, crud, run, gen, integrityVars>>

Elapsed == rate.stop - rate.start

\* run_objective_1_schema_flexibility, MongoDB branch: 'rate': len(result.inserted_ids)/mongo_basic_time
ComparisonMongoBasicRate ==
    RateStoreOrRaise({"cmp_mongo_basic"}, UnguardedRate(rate.count, Elapsed))

\* run_objective_1_schema_flexibility, PostgreSQL branch
ComparisonPostgresBasicRate ==
    RateStoreOrErrorEntry({"cmp_pg_basic"}, UnguardedRate(rate.count, Elapsed))

\* run_objective_2_performance, MongoDB branch: create_rate = len(result.inserted_ids) / create_time
ComparisonMongoCreateRate ==
    RateStoreOrRaise({"cmp_mongo_create"}, UnguardedRate(rate.count, Elapsed))

\* run_objective_2_performance, PostgreSQL branch
ComparisonPostgresCreateRate ==
    RateStoreOrErrorEntry({"cmp_pg_create"}, UnguardedRate(rate.count, Elapsed))

\* test_crud_performance of both scripts: size / create_time if create_time > 0 else 0
CrudCreateRate ==
    RateStoreOrRaise({"mongo_create", "pg_create"}, GuardedRate(rate.count, Elapsed))

\* analyze_consistency_performance of both scripts: len(test_orders) / no_constraints_time
UnconstrainedInsertRate ==
    RateStoreOrRaise({"mongo_unvalidated", "pg_unconstrained"},
                     UnguardedRate(rate.count, Elapsed))

\* analyze_consistency_performance of both scripts:
\* constraint_successes / with_constraints_time if with_constraints_time > 0 else 0
ConstrainedInsertRate ==
    RateStoreOrRaise({"mongo_validated", "pg_constrained"},
                     GuardedRate(rate.count, Elapsed))

InitRate == vprobe = ProbeOff /\ prov = ProvOff /\ battery = BatteryOff /\ crud = CrudOff /\ run = RunOff /\ gen = GenIdle /\ rate = RateIdle /\ IntegrityOff

NextRate ==
    \/ RateTimeOperation
    \/ ComparisonMongoBasicRate
    \/ ComparisonPostgresBasicRate
    \/ ComparisonMongoCreateRate
    \/ ComparisonPostgresCreateRate
    \/ CrudCreateRate
    \/ UnconstrainedInsertRate
    \/ ConstrainedInsertRate

SpecRate == InitRate /\ [][NextRate]_vars

\* C2: every derived rate is count/duration when duration > 0 and 0 when
\* duration = 0, and no duration of 0 makes the phase fail with a division
\* by zero.
RatesNeverDivideByZero ==
    rate.pc = "computed" =>
        /\ rate.outcome = "stored"
        /\ rate.value = IF Elapsed > 0 THEN Quotient(rate.count, Elapsed)
                        ELSE Quotient(0, 1)

InitGen == vprobe = ProbeOff /\ prov = ProvOff /\ battery = BatteryOff /\ crud = CrudOff /\ run = RunOff /\ gen = GenIdle /\ rate = RateIdle /\ IntegrityOff

NextGen == GenCall \/ GenLoop \/ GenReturn

SpecGen == InitGen /\ [][NextGen]_vars

\* C1: a returned sequence has exactly count records, the k-th identifier is
\* the prefix, an underscore and the six-digit zero-padded decimal of k, and
\* the identifiers are pairwise distinct.
GeneratorIdsDistinct ==
    gen.pc = "returned" =>
        /\ Len(gen.test_data) = gen.count
        /\ \A k \in 1..Len(gen.test_data) :
              LET id == gen.test_data[k].id
                  np == Len(gen.prefix)
              IN  /\ Len(id) = np + 1 + IdWidth
                  /\ SubSeq(id, 1, np) = gen.prefix
                  /\ id[np + 1] = "_"
                  /\ \A j \in (np + 2)..Len(id) : IsDigit(id[j])
                  /\ NumberOf(SubSeq(id, np + 2, Len(id))) = k
        /\ \A j, k \in 1..Len(gen.test_data) :
              j /= k => gen.test_data[j].id /= gen.test_data[k].id

GeneratorReturnedMany == gen.pc = "returned" /\ gen.count = MaxGenCount

(***************************************************************************)
(* Text of the data-integrity phase                                        *)
(***************************************************************************)
Lower == <<"a", "b", "c", "d", "e", "f", "g", "h", "i", "j", "k", "l", "m", "n", "o", "p", "q", "r", "s", "t", "u", "v", "w", "x", "y", "z">>
Upper == <<"A", "B", "C", "D", "E", "F", "G", "H", "I", "J", "K", "L", "M", "N", "O", "P", "Q", "R", "S", "T", "U", "V", "W", "X", "Y", "Z">>

DigitSet == {DigitChars[d] : d \in 1..10}
LetterSet == {Lower[k] : k \in 1..26} \cup {Upper[k] : k \in 1..26}
AlnumSet == LetterSet \cup DigitSet

\* every character of s[lo..hi] is in the class S
Within(s, lo, hi, S) == \A j \in lo..hi : s[j] \in S

HasPrefix(s, p) == Len(s) >= Len(p) /\ SubSeq(s, 1, Len(p)) = p

\* the string literals of the harness, as tuples of characters
Lit ==
    [
     CUST_ |-> <<"C", "U", "S", "T", "_">>,
     ORD_ |-> <<"O", "R", "D", "_">>,
     PAY_ |-> <<"P", "A", "Y", "_">>,
     PROD_ |-> <<"P", "R", "O", "D", "_">>,
     INVALID_ID |-> <<"I", "N", "V", "A", "L", "I", "D", "_", "I", "D">>,
     CUST_NOEXIST |-> <<"C", "U", "S", "T", "_", "N", "O", "E", "X", "I", "S", "T">>,
     ORD_ROLLBACK |-> <<"O", "R", "D", "_", "R", "O", "L", "L", "B", "A", "C", "K">>,
     PAY_ROLLBACK |-> <<"P", "A", "Y", "_", "R", "O", "L", "L", "B", "A", "C", "K">>,
     ORD_ORPHAN01 |-> <<"O", "R", "D", "_", "O", "R", "P", "H", "A", "N", "0", "1">>,
     ORD_NOEXIST |-> <<"O", "R", "D", "_", "N", "O", "E", "X", "I", "S", "T">>,
     PAY_ORPHAN01 |-> <<"P", "A", "Y", "_", "O", "R", "P", "H", "A", "N", "0", "1">>,
     ORD_CASCADE |-> <<"O", "R", "D", "_", "C", "A", "S", "C", "A", "D", "E">>,
     PAY_CASCADE |-> <<"P", "A", "Y", "_", "C", "A", "S", "C", "A", "D", "E">>,
     ORD_BADPROD |-> <<"O", "R", "D", "_", "B", "A", "D", "P", "R", "O", "D">>,
     PROD_INVALID |-> <<"P", "R", "O", "D", "_", "I", "N", "V", "A", "L", "I", "D">>,
     ORD_VALID001 |-> <<"O", "R", "D", "_", "V", "A", "L", "I", "D", "0", "0", "1">>,
     PAY_WRONG001 |-> <<"P", "A", "Y", "_", "W", "R", "O", "N", "G", "0", "0", "1">>,
     ValidEmail |-> <<"v", "a", "l", "i", "d", ".", "c", "u", "s", "t", "o", "m", "e", "r", "@", "t", "e", "s", "t", ".", "c", "o", "m">>,
     NotAnEmail |-> <<"n", "o", "t", "-", "a", "n", "-", "e", "m", "a", "i", "l">>,
     Invalid1Email |-> <<"i", "n", "v", "a", "l", "i", "d", "1", "@", "t", "e", "s", "t", ".", "c", "o", "m">>,
     Invalid2Email |-> <<"i", "n", "v", "a", "l", "i", "d", "2", "@", "t", "e", "s", "t", ".", "c", "o", "m">>,
     Invalid3Email |-> <<"i", "n", "v", "a", "l", "i", "d", "3", "@", "t", "e", "s", "t", ".", "c", "o", "m">>,
     CascadeEmail |-> <<"c", "a", "s", "c", "a", "d", "e", ".", "t", "e", "s", "t", "@", "e", "m", "a", "i", "l", ".", "c", "o", "m">>,
     EmailDomain |-> <<"@", "e", "m", "a", "i", "l", ".", "c", "o", "m">>,
     CustomerWord |-> <<"c", "u", "s", "t", "o", "m", "e", "r">>,
     ValidPhone |-> <<"+", "1", "2", "3", "4", "5", "6", "7", "8", "9", "0">>,
     PhoneStem |-> <<"+", "1", "2", "3", "4", "5", "6", "7">>,
     ValidName |-> <<"V", "a", "l", "i", "d", " ", "C", "u", "s", "t", "o", "m", "e", "r">>,
     ShortName |-> <<"X">>,
     InvalidName |-> <<"I", "n", "v", "a", "l", "i", "d", " ", "C", "u", "s", "t", "o", "m", "e", "r", " ">>,
     CascadeName |-> <<"C", "a", "s", "c", "a", "d", "e", " ", "T", "e", "s", "t", " ", "C", "u", "s", "t", "o", "m", "e", "r">>,
     CustomerName |-> <<"C", "u", "s", "t", "o", "m", "e", "r", " ">>,
     ValidStreet |-> <<"1", "2", "3", " ", "V", "a", "l", "i", "d", " ", "S", "t", "r", "e", "e", "t">>,
     TestStreet |-> <<"1", "2", "3", " ", "T", "e", "s", "t", " ", "S", "t", "r", "e", "e", "t">>,
     CascadeStreet |-> <<"1", "2", "3", " ", "C", "a", "s", "c", "a", "d", "e", " ", "S", "t", "r", "e", "e", "t">>,
     MainStreet |-> <<" ", "M", "a", "i", "n", " ", "S", "t", "r", "e", "e", "t">>,
     TestCity |-> <<"T", "e", "s", "t", " ", "C", "i", "t", "y">>,
     NewYork |-> <<"N", "e", "w", " ", "Y", "o", "r", "k">>,
     USA |-> <<"U", "S", "A">>,
     INVALID |-> <<"I", "N", "V", "A", "L", "I", "D">>,
     TestEmail |-> <<"t", "e", "s", "t", "@", "e", "x", "a", "m", "p", "l", "e", ".", "c", "o", "m">>,
     Test2Email |-> <<"t", "e", "s", "t", "2", "@", "e", "x", "a", "m", "p", "l", "e", ".", "c", "o", "m">>,
     Test |-> <<"T", "e", "s", "t">>,
     TestCustomer |-> <<"T", "e", "s", "t", " ", "C", "u", "s", "t", "o", "m", "e", "r">>,
     SPEED |-> <<"S", "P", "E", "E", "D">>,
     PERFK |-> <<"P", "E", "R", "F">>,
     LetterT |-> <<"T">>
    ]

\* f"CUST_{i:06d}", f"PROD_{j:06d}"
CustomerKey(i) == Lit.CUST_ \o ZeroPad(Decimal(i), 6)
ProductKey(j) == Lit.PROD_ \o ZeroPad(Decimal(j), 6)
\* f"ORD_T{i:07d}", f"PAY_T{i:07d}"
TxOrderKey(i) == Lit.ORD_ \o Lit.LetterT \o ZeroPad(Decimal(i), 7)
TxPaymentKey(i) == Lit.PAY_ \o Lit.LetterT \o ZeroPad(Decimal(i), 7)
\* f"ORD_SPEED{i:03d}", f"ORD_PERF{i:03d}", f"PAY_PERF{i:03d}"
SpeedOrderKey(i) == Lit.ORD_ \o Lit.SPEED \o ZeroPad(Decimal(i), 3)
PerfOrderKey(i) == Lit.ORD_ \o Lit.PERFK \o ZeroPad(Decimal(i), 3)
PerfPaymentKey(i) == Lit.PAY_ \o Lit.PERFK \o ZeroPad(Decimal(i), 3)

(***************************************************************************)
(* Declared constraints: the CHECK / FOREIGN KEY / PRIMARY KEY / UNIQUE    *)
(* clauses of PostgreSQL.py and the $jsonSchema validators of              *)
(* mongo_test.py.  Each operator returns the set of rules a record         *)
(* violates in a database content d.                                       *)
(***************************************************************************)
\* '^CUST_[0-9]{6}$'
MatchesCustomerId(s) ==
    /\ HasPrefix(s, Lit.CUST_)
    /\ Len(s) = Len(Lit.CUST_) + 6
    /\ Within(s, Len(Lit.CUST_) + 1, Len(s), DigitSet)

\* '^ORD_[A-Za-z0-9]{2,12}$'
MatchesOrderId(s) ==
    /\ HasPrefix(s, Lit.ORD_)
    /\ Len(s) - Len(Lit.ORD_) \in 2..12
    /\ Within(s, Len(Lit.ORD_) + 1, Len(s), AlnumSet)

\* '^PAY_[A-Za-z0-9]{2,12}$'
MatchesPaymentId(s) ==
    /\ HasPrefix(s, Lit.PAY_)
    /\ Len(s) - Len(Lit.PAY_) \in 2..12
    /\ Within(s, Len(Lit.PAY_) + 1, Len(s), AlnumSet)

\* '^\+?[0-9]{10,15}$'
MatchesPhone(s) ==
    LET body == IF s /= <<>> /\ s[1] = "+" THEN Tail(s) ELSE s
    IN  Len(body) \in 10..15 /\ Within(body, 1, Len(body), DigitSet)

\* '^[a-zA-Z0-9._%+-]+@[a-zA-Z0-9.-]+\.[a-zA-Z]{2,}$'
MatchesEmail(s) ==
    \E a \in 2..Len(s), d \in 1..Len(s) :
        /\ s[a] = "@"
        /\ d > a + 1
        /\ s[d] = "."
        /\ Len(s) - d >= 2
        /\ Within(s, 1, a - 1, AlnumSet \cup {".", "_", "%", "+", "-"})
        /\ Within(s, a + 1, d - 1, AlnumSet \cup {".", "-"})
        /\ Within(s, d + 1, Len(s), LetterSet)

Rule(name, holds) == IF holds THEN {} ELSE {name}

Enum ==
    [customer_status |-> {"active", "inactive", "suspended"},
     order_status |-> {"pending", "confirmed", "shipped", "delivered", "cancelled"},
     payment_method |-> {"credit_card", "debit_card", "paypal", "bank_transfer"},
     payment_status |-> {"pending", "completed", "failed", "refunded"}]

Has(doc, f) == f \in DOMAIN doc

\* CREATE TABLE customers
PgCustomerViolations(d, c) ==
    Rule("varchar_customer_id", Len(c.customer_id) <= 20)
    \cup Rule("pk_customer_id", \A r \in d.customers : r.customer_id /= c.customer_id)
    \cup Rule("unique_email", \A r \in d.customers : r.email /= c.email)
    \cup Rule("chk_customer_id", MatchesCustomerId(c.customer_id))
    \cup Rule("chk_email", MatchesEmail(c.email))
    \cup Rule("chk_name_length", Len(c.name) >= 2 /\ Len(c.name) <= 100)
    \cup Rule("chk_phone", MatchesPhone(c.phone))
    \cup Rule("chk_street_length", Len(c.street) >= 5)
    \cup Rule("chk_city_length", Len(c.city) >= 2)
    \cup Rule("enum_customer_status", c.status \in Enum.customer_status)

\* customer_schema
MongoCustomerViolations(c) ==
    Rule("required_customer_id", Has(c, "customer_id"))
    \cup Rule("required_email", Has(c, "email"))
    \cup Rule("required_name", Has(c, "name"))
    \cup Rule("required_created_at", Has(c, "created_at"))
    \cup Rule("pattern_customer_id", Has(c, "customer_id") => MatchesCustomerId(c.customer_id))
    \cup Rule("pattern_email", Has(c, "email") => MatchesEmail(c.email))
    \cup Rule("length_name", Has(c, "name") => (Len(c.name) >= 2 /\ Len(c.name) <= 100))
    \cup Rule("pattern_phone", Has(c, "phone") => MatchesPhone(c.phone))
    \cup Rule("length_street", Has(c, "street") => Len(c.street) >= 5)
    \cup Rule("length_city", Has(c, "city") => Len(c.city) >= 2)
    \cup Rule("length_country", Has(c, "country") => Len(c.country) >= 2)
    \cup Rule("enum_status", Has(c, "status") => c.status \in Enum.customer_status)

\* CREATE TABLE orders; amounts are in cents, and DECIMAL(12,2) holds every
\* amount the harness writes
PgOrderViolations(d, o) ==
    Rule("varchar_order_id", Len(o.order_id) <= 20)
    \cup Rule("pk_order_id", \A r \in d.orders : r.order_id /= o.order_id)
    \cup Rule("chk_order_id", MatchesOrderId(o.order_id))
    \cup Rule("chk_total_amount", o.total_amount >= 0)
    \cup Rule("enum_order_status", o.status \in Enum.order_status)
    \cup Rule("fk_customer_id", \E r \in d.customers : r.customer_id = o.customer_id)

\* CREATE TABLE order_items
PgOrderItemViolations(d, it) ==
    Rule("chk_quantity", it.quantity >= 1)
    \cup Rule("chk_unit_price", it.unit_price >= 0)
    \cup Rule("fk_order_id", \E r \in d.orders : r.order_id = it.order_id)

\* CREATE TABLE payments
PgPaymentViolations(d, p) ==
    Rule("varchar_payment_id", Len(p.payment_id) <= 20)
    \cup Rule("pk_payment_id", \A r \in d.payments : r.payment_id /= p.payment_id)
    \cup Rule("chk_payment_id", MatchesPaymentId(p.payment_id))
    \cup Rule("chk_amount", p.amount >= 0)
    \cup Rule("enum_payment_method", p.method \in Enum.payment_method)
    \cup Rule("enum_payment_status", p.status \in Enum.payment_status)
    \cup Rule("fk_order_id", \E r \in d.orders : r.order_id = p.order_id)

\* order_schema: the items are embedded in the order document
MongoOrderViolations(o) ==
    Rule("pattern_order_id", MatchesOrderId(o.order_id))
    \cup Rule("pattern_customer_id", MatchesCustomerId(o.customer_id))
    \cup Rule("min_items", Len(o.items) >= 1)
    \cup Rule("min_quantity", \A k \in 1..Len(o.items) : o.items[k].quantity >= 1)
    \cup Rule("min_unit_price", \A k \in 1..Len(o.items) : o.items[k].unit_price >= 0)
    \cup Rule("min_total_amount", o.total_amount >= 0)
    \cup Rule("enum_status", o.status \in Enum.order_status)

\* payment_schema
MongoPaymentViolations(p) ==
    Rule("pattern_payment_id", MatchesPaymentId(p.payment_id))
    \cup Rule("pattern_order_id", MatchesOrderId(p.order_id))
    \cup Rule("min_amount", p.amount >= 0)
    \cup Rule("enum_method", p.method \in Enum.payment_method)
    \cup Rule("enum_status", p.status \in Enum.payment_status)

(***************************************************************************)
(* The database behind the harness.  db is what the harness's connection   *)
(* sees, committed is what survives a rollback, session is the state of    *)
(* the connection's transaction.                                           *)
(***************************************************************************)
EmptyDb == [customers |-> {}, orders |-> {}, items |-> {}, payments |-> {}, inventory |-> {}]
FreshStore == [db |-> EmptyDb, committed |-> EmptyDb, session |-> "idle"]

\* the part of the phase a position belongs to
PhaseOf(p) ==
    CASE p \in {"setup", "sample"} -> "provisioning"
      [] p \in {"valid_customer", "invalid_customers", "valid_order", "invalid_order"} -> "validation"
      [] p \in {"transactions", "rollback_probe"} -> "transactions"
      [] p \in {"integrity", "ri_product", "ri_payment", "ri_amount", "ri_cascade"} -> "integrity"
      [] OTHER -> "consistency"

\* cfg.lax names the part in which the backend answers as it likes; everywhere
\* else it accepts a statement exactly when no declared rule is violated.
Faithful == cfg.lax /= PhaseOf(pc)
Answer(a, ok) == IF Faithful THEN ok ELSE a

\* cursor.execute with autocommit = False: a statement issued in an aborted
\* transaction fails, a failing statement aborts the transaction
PgExecute(st, accepted, d2) ==
    IF st.session /= "aborted" /\ accepted
    THEN [ok |-> TRUE, store |-> [st EXCEPT !.db = d2, !.session = "open"]]
    ELSE [ok |-> FALSE, store |-> [st EXCEPT !.session = "aborted"]]

\* connection.commit(): committing an aborted transaction rolls it back
PgCommit(st) ==
    IF st.session = "aborted"
    THEN [db |-> st.committed, committed |-> st.committed, session |-> "idle"]
    ELSE [db |-> st.db, committed |-> st.db, session |-> "idle"]

\* a handler that ends the transaction and keeps what it had written
PgKeep(st) == [db |-> st.db, committed |-> st.committed, session |-> "idle"]

\* connection.rollback()
PgRollback(st) == [db |-> st.committed, committed |-> st.committed, session |-> "idle"]

\* a collection write outside any session is applied at once
MongoWrite(st, accepted, d2) ==
    IF accepted
    THEN [ok |-> TRUE, store |-> [st EXCEPT !.db = d2, !.committed = d2]]
    ELSE [ok |-> FALSE, store |-> st]

CustomerRow(c) ==
    [customer_id |-> IF Has(c, "customer_id") THEN c.customer_id ELSE <<>>,
     email |-> c.email]
OrderRow(o) ==
    [order_id |-> o.order_id, customer_id |-> o.customer_id,
     total_amount |-> o.total_amount, status |-> o.status]
ItemRow(o, k) ==
    [order_id |-> o.order_id, product_id |-> o.items[k].product_id,
     quantity |-> o.items[k].quantity, unit_price |-> o.items[k].unit_price]
ItemRows(o) == {ItemRow(o, k) : k \in 1..Len(o.items)}
PaymentRow(p) ==
    [payment_id |-> p.payment_id, order_id |-> p.order_id, amount |-> p.amount,
     method |-> p.method, status |-> p.status]
InventoryRow(j, s) ==
    [product_id |-> ProductKey(j), stock_quantity |-> s, reserved_quantity |-> 0]

InsertCustomer(d, c) == [d EXCEPT !.customers = @ \cup {CustomerRow(c)}]
InsertOrder(d, o) == [d EXCEPT !.orders = @ \cup {OrderRow(o)}]
InsertItems(d, o, ks) == [d EXCEPT !.items = @ \cup {ItemRow(o, k) : k \in ks}]
InsertPayment(d, p) == [d EXCEPT !.payments = @ \cup {PaymentRow(p)}]
\* orders_collection.insert_one: the items travel inside the document
InsertOrderDoc(d, o) == InsertItems(InsertOrder(d, o), o, 1..Len(o.items))

(***************************************************************************)
(* create_sample_ecommerce_data                                            *)
(***************************************************************************)
SampleCustomers == 2
SampleProducts == 3
StockMin == 10
StockMax == 1000
StockChoices == {StockMin, StockMax}

\* the stocks drawn for the products: the least or the greatest, for all alike
StockProfiles == {[j \in 1..SampleProducts |-> s] : s \in StockChoices}

SampleCustomer(i) ==
    [customer_id |-> CustomerKey(i),
     email |-> Lit.CustomerWord \o Decimal(i) \o Lit.EmailDomain,
     name |-> Lit.CustomerName \o Decimal(i),
     phone |-> Lit.PhoneStem \o ZeroPad(Decimal(i), 4),
     street |-> Decimal(i) \o Lit.MainStreet,
     city |-> Lit.NewYork, country |-> Lit.USA, created_at |-> "date", status |-> "active"]

SampleCustomerRows(n) == {CustomerRow(SampleCustomer(k)) : k \in 1..n}

\* CREATE TABLE inventory / inventory_schema
InventoryViolations(backend, r) ==
    Rule("chk_stock_quantity", r.stock_quantity >= 0)
    \cup Rule("chk_reserved_quantity", r.reserved_quantity >= 0)
    \cup Rule("chk_available_stock",
              backend = "pg" => r.stock_quantity >= r.reserved_quantity)

CustomerViolations(backend, d, c) ==
    IF backend = "pg" THEN PgCustomerViolations(d, c) ELSE MongoCustomerViolations(c)

SampleDataValid(backend, stock) ==
    /\ \A i \in 1..SampleCustomers :
          CustomerViolations(backend,
              [EmptyDb EXCEPT !.customers = SampleCustomerRows(i - 1)],
              SampleCustomer(i)) = {}
    /\ \A j \in 1..SampleProducts :
          InventoryViolations(backend, InventoryRow(j, stock[j])) = {}

SampleDb(stock) ==
    [EmptyDb EXCEPT !.customers = SampleCustomerRows(SampleCustomers),
                    !.inventory = {InventoryRow(j, stock[j]) : j \in 1..SampleProducts}]

(***************************************************************************)
(* run_objective_3_data_integrity: provisioning                            *)
(***************************************************************************)
Backends == {"pg", "mongo"}
NoValidation == [valid_insertions |-> 0, invalid_insertions_blocked |-> 0,
                 validation_errors |-> <<>>]
NoObservation == [outcomes |-> <<>>, before |-> <<>>, attempts |-> <<>>]

\* setup_validation_schemas: the old tables or collections are dropped and
\* created anew with their constraints
SetupValidationSchemas ==
    /\ pc = "setup"
    /\ \E a \in BOOLEAN :
          IF Answer(a, TRUE)
          THEN store' = FreshStore /\ pc' = "sample"
          ELSE store' = FreshStore /\ pc' = "returned_none"
    /\ UNCHANGED <<vprobe, prov, battery, crud, run, gen, rate, cfg, performance_comparison, idx, validation_results, transaction_results,
                   integrity_results, tx, obs>>

\* a phase that goes on to the probes whatever create_sample_ecommerce_data
\* reported
SampleDataUngated ==
    /\ pc = "sample"
    /\ \E a \in BOOLEAN, stock \in StockProfiles :
          IF Answer(a, SampleDataValid(cfg.backend, stock))
          THEN store' = [db |-> SampleDb(stock), committed |-> SampleDb(stock),
                         session |-> "idle"]
          ELSE store' = IF cfg.backend = "pg"
                        THEN [store EXCEPT !.session = "aborted"] ELSE store
    /\ pc' = "valid_customer"
    /\ UNCHANGED <<vprobe, prov, battery, crud, run, gen, rate, cfg, performance_comparison, idx,
                   validation_results, transaction_results, integrity_results, tx, obs>>

\* create_sample_ecommerce_data: random.randint(10, 1000) draws each stock
CreateSampleEcommerceData ==
    /\ pc = "sample"
    /\ \E a \in BOOLEAN, stock \in StockProfiles :
          IF Answer(a, SampleDataValid(cfg.backend, stock))
          THEN /\ store' = [db |-> SampleDb(stock), committed |-> SampleDb(stock),
                            session |-> "idle"]
               /\ pc' = "valid_customer"
          ELSE /\ store' = IF cfg.backend = "pg"
                           THEN [store EXCEPT !.session = "aborted"] ELSE store
               /\ pc' = "returned_none"
    /\ UNCHANGED <<vprobe, prov, battery, crud, run, gen, rate, cfg, performance_comparison, idx, validation_results, transaction_results,
                   integrity_results, tx, obs>>

(***************************************************************************)
(* test_data_validation                                                    *)
(***************************************************************************)
ValidCustomer ==
    [customer_id |-> CustomerKey(999999), email |-> Lit.ValidEmail, name |-> Lit.ValidName,
     phone |-> Lit.ValidPhone, street |-> Lit.ValidStreet, city |-> Lit.TestCity,
     country |-> Lit.USA, created_at |-> "date", status |-> "active"]

PgInvalidCustomer(cid, email, name) ==
    [customer_id |-> cid, email |-> email, name |-> name, phone |-> Lit.ValidPhone,
     street |-> Lit.TestStreet, city |-> Lit.TestCity, country |-> Lit.USA,
     created_at |-> "date", status |-> "active"]

MongoInvalidCustomer(cid, email, name) ==
    [customer_id |-> cid, email |-> email, name |-> name,
     created_at |-> "date", status |-> "active"]

InvalidCustomers(backend) ==
    IF backend = "pg"
    THEN << PgInvalidCustomer(CustomerKey(888888), Lit.NotAnEmail, Lit.InvalidName \o Decimal(1)),
            PgInvalidCustomer(Lit.INVALID_ID, Lit.Invalid2Email, Lit.InvalidName \o Decimal(2)),
            PgInvalidCustomer(CustomerKey(777777), Lit.Invalid3Email, Lit.ShortName) >>
    ELSE << [email |-> Lit.Invalid1Email, name |-> Lit.InvalidName \o Decimal(1)],
            MongoInvalidCustomer(CustomerKey(888888), Lit.NotAnEmail, Lit.InvalidName \o Decimal(2)),
            MongoInvalidCustomer(Lit.INVALID_ID, Lit.Invalid3Email, Lit.InvalidName \o Decimal(3)) >>

ValidOrder ==
    [order_id |-> Lit.ORD_ \o Decimal(12345678), customer_id |-> CustomerKey(1),
     total_amount |-> 6748, status |-> "pending",
     items |-> << [product_id |-> ProductKey(1), quantity |-> 2, unit_price |-> 2599],
                  [product_id |-> ProductKey(2), quantity |-> 1, unit_price |-> 1550] >>]

InvalidOrder ==
    [order_id |-> Lit.ORD_ \o Decimal(87654321), customer_id |-> CustomerKey(1),
     total_amount |-> 2599, status |-> "pending",
     items |-> << [product_id |-> ProductKey(1), quantity |-> 0 - 1, unit_price |-> 2599] >>]

\* a harness that keeps only the first mismatch
KeepFirstError(errors, e) == IF errors = <<>> THEN <<e>> ELSE errors

\* a harness that reports a mismatch and keeps no entry of it
DropError(errors, e) == errors

\* the except branches: what is appended to validation_errors
AppendError(errors, e) == Append(errors, e)

\* try: execute(INSERT); commit()  /  try: insert_one(doc)
ExecuteAndCommit(st, backend, accepted, d2) ==
    IF backend = "pg"
    THEN LET r == PgExecute(st, accepted, d2)
         IN  IF r.ok THEN [ok |-> TRUE, store |-> PgCommit(r.store)] ELSE r
    ELSE MongoWrite(st, accepted, d2)

Observe(o, expected, accepted) ==
    [o EXCEPT !.outcomes = Append(@, [expected |-> expected, accepted |-> accepted])]

ValidCustomerProbe ==
    /\ pc = "valid_customer"
    /\ \E a \in BOOLEAN :
          LET ok == Answer(a, CustomerViolations(cfg.backend, store.db, ValidCustomer) = {})
              r == ExecuteAndCommit(store, cfg.backend, ok,
                                    InsertCustomer(store.db, ValidCustomer))
          IN  /\ store' = r.store
              /\ validation_results' =
                    IF r.ok
                    THEN [validation_results EXCEPT !.valid_insertions = @ + 1]
                    ELSE [validation_results EXCEPT !.validation_errors =
                             AppendError(@, [kind |-> "Valid data rejected", case |-> 0])]
              /\ obs' = Observe(obs, TRUE, r.ok)
    /\ pc' = "invalid_customers"
    /\ idx' = 1
    /\ UNCHANGED <<vprobe, prov, battery, crud, run, gen, rate, cfg, performance_comparison, transaction_results, integrity_results, tx>>

InvalidCustomerProbe ==
    /\ pc = "invalid_customers"
    /\ \E a \in BOOLEAN :
          LET c == InvalidCustomers(cfg.backend)[idx]
              ok == Answer(a, CustomerViolations(cfg.backend, store.db, c) = {})
              r == ExecuteAndCommit(store, cfg.backend, ok, InsertCustomer(store.db, c))
          IN  /\ store' = r.store
              /\ validation_results' =
                    IF r.ok
                    THEN [validation_results EXCEPT !.validation_errors =
                             AppendError(@, [kind |-> "Invalid data accepted", case |-> idx])]
                    ELSE [validation_results EXCEPT !.invalid_insertions_blocked = @ + 1]
              /\ obs' = Observe(obs, FALSE, r.ok)
    /\ IF idx < Len(InvalidCustomers(cfg.backend))
       THEN idx' = idx + 1 /\ pc' = pc
       ELSE idx' = 0 /\ pc' = "valid_order"
    /\ UNCHANGED <<vprobe, prov, battery, crud, run, gen, rate, cfg, performance_comparison, transaction_results, integrity_results, tx>>

\* try: execute(INSERT INTO orders); execute(INSERT INTO order_items); commit()
\* try: orders_collection.insert_one(order)
InsertOrderWithItems(st, backend, o, a1, a2) ==
    IF backend = "pg"
    THEN LET r1 == PgExecute(st, Answer(a1, PgOrderViolations(st.db, o) = {}),
                             InsertOrder(st.db, o))
             d1 == r1.store.db
             r2 == PgExecute(r1.store,
                             Answer(a2, \A k \in 1..Len(o.items) :
                                           PgOrderItemViolations(d1, ItemRow(o, k)) = {}),
                             InsertItems(d1, o, 1..Len(o.items)))
         IN  IF ~r1.ok THEN r1
             ELSE IF ~r2.ok THEN r2
             ELSE [ok |-> TRUE, store |-> PgCommit(r2.store)]
    ELSE MongoWrite(st, Answer(a1, MongoOrderViolations(o) = {}), InsertOrderDoc(st.db, o))

ValidOrderProbe ==
    /\ pc = "valid_order"
    /\ \E a1 \in BOOLEAN, a2 \in BOOLEAN :
          LET r == InsertOrderWithItems(store, cfg.backend, ValidOrder, a1, a2)
          IN  /\ store' = r.store
              /\ validation_results' =
                    IF r.ok
                    THEN [validation_results EXCEPT !.valid_insertions = @ + 1]
                    ELSE [validation_results EXCEPT !.validation_errors =
                             AppendError(@, [kind |-> "Valid order rejected", case |-> 0])]
              /\ obs' = Observe(obs, TRUE, r.ok)
    /\ pc' = "invalid_order"
    /\ UNCHANGED <<vprobe, prov, battery, crud, run, gen, rate, cfg, performance_comparison, idx, transaction_results, integrity_results, tx>>

\* the except branch of the last probe is the only one that rolls back
InvalidOrderProbe ==
    /\ pc = "invalid_order"
    /\ \E a1 \in BOOLEAN, a2 \in BOOLEAN :
          LET r == InsertOrderWithItems(store, cfg.backend, InvalidOrder, a1, a2)
          IN  /\ store' = IF ~r.ok /\ cfg.backend = "pg"
                          THEN PgRollback(r.store) ELSE r.store
              /\ validation_results' =
                    IF r.ok
                    THEN [validation_results EXCEPT !.validation_errors =
                             AppendError(@, [kind |-> "Negative quantity order accepted",
                                             case |-> 0])]
                    ELSE [validation_results EXCEPT !.invalid_insertions_blocked = @ + 1]
              /\ obs' = Observe(obs, FALSE, r.ok)
    /\ pc' = "transactions"
    /\ idx' = 1
    /\ UNCHANGED <<vprobe, prov, battery, crud, run, gen, rate, cfg, performance_comparison, transaction_results, integrity_results, tx>>

(***************************************************************************)
(* test_multi_document_transactions: process_order_transaction             *)
(***************************************************************************)
TxOrderCount == 3
UnitPrice == 2599
RollbackQuantity == 99999
RollbackTotal == 259990001
\* random.randint(1, 3) draws each quantity
QuantityChoices == 1..3
\* range(1, random.randint(2, 4)) has one to three elements
ItemCountChoices == {m - 1 : m \in 2..4}

RECURSIVE TotalOf(_, _)
TotalOf(items, k) ==
    IF k = 0 THEN 0 ELSE TotalOf(items, k - 1) + items[k].quantity * items[k].unit_price

OrderOf(oid, items, total) ==
    [order_id |-> oid, customer_id |-> CustomerKey(1), total_amount |-> total,
     status |-> "pending", items |-> items]
PaymentOf(pid, o) ==
    [payment_id |-> pid, order_id |-> o.order_id, amount |-> o.total_amount,
     method |-> "credit_card", status |-> "pending"]

TxOrder(i, q) ==
    LET items == [j \in 1..Len(q) |->
                     [product_id |-> ProductKey(j), quantity |-> q[j], unit_price |-> UnitPrice]]
    IN  OrderOf(TxOrderKey(i), items, TotalOf(items, Len(items)))

RollbackOrder ==
    OrderOf(Lit.ORD_ROLLBACK,
            << [product_id |-> ProductKey(1), quantity |-> RollbackQuantity,
                unit_price |-> UnitPrice] >>,
            RollbackTotal)

\* the draws of one order: every combination, or the least and the greatest
QuantityDraws(pool) ==
    IF pool = "full"
    THEN UNION {[1..n -> QuantityChoices] : n \in ItemCountChoices}
    ELSE {<<1>>, <<3, 3, 3>>}

\* the statements process_order_transaction issues for an order, in order
ReserveStatements(o) ==
    [k \in 1..(2 * Len(o.items)) |->
        [op |-> IF k % 2 = 1 THEN "select_inventory" ELSE "reserve", item |-> (k + 1) \div 2]]

OrderStatements(backend, o) ==
    (IF backend = "pg" THEN << [op |-> "begin", item |-> 0] >> ELSE << >>)
    \o ReserveStatements(o)
    \o << [op |-> "insert_order", item |-> 0] >>
    \o (IF backend = "pg" THEN << [op |-> "insert_items", item |-> 0] >> ELSE << >>)
    \o << [op |-> "insert_payment", item |-> 0], [op |-> "confirm_order", item |-> 0],
          [op |-> "confirm_payment", item |-> 0] >>

InventoryOf(d, pid) == {r \in d.inventory : r.product_id = pid}

\* a harness whose stock check fails every order
AlwaysInsufficient(r, quantity) == TRUE

\* a harness whose stock check never fails
NeverInsufficient(r, quantity) == FALSE

\* available_stock < quantity
InsufficientStock(r, quantity) == r.stock_quantity - r.reserved_quantity < quantity

\* a harness that reserves nothing
ReserveNothing(d, pid, quantity) == d

\* UPDATE inventory SET reserved_quantity = reserved_quantity + %s
Reserve(d, pid, quantity) ==
    [d EXCEPT !.inventory =
        {IF r.product_id = pid
         THEN [r EXCEPT !.reserved_quantity = @ + quantity] ELSE r : r \in @}]

SetOrderStatus(d, oid, s) ==
    [d EXCEPT !.orders = {IF r.order_id = oid THEN [r EXCEPT !.status = s] ELSE r : r \in @}]
SetPaymentStatus(d, pid, s) ==
    [d EXCEPT !.payments = {IF r.payment_id = pid THEN [r EXCEPT !.status = s] ELSE r : r \in @}]

WriteOps == {"reserve", "insert_order", "insert_items", "insert_payment",
             "confirm_order", "confirm_payment", "insert_customer", "delete_customer"}
Event(op, ok) == [op |-> op, ok |-> ok, write |-> op \in WriteOps]

\* a write issued with session=session: a rejected write aborts the server's
\* transaction unless the failure was on the client's side only (lost)
MongoTxWrite(st, accepted, d2, lost) ==
    IF st.session = "aborted" THEN [ok |-> FALSE, store |-> st]
    ELSE IF accepted THEN [ok |-> TRUE, store |-> [st EXCEPT !.db = d2]]
    ELSE IF lost THEN [ok |-> FALSE, store |-> st]
    ELSE [ok |-> FALSE, store |-> [st EXCEPT !.db = st.committed, !.session = "aborted"]]

\* leaving "with session.start_transaction()" normally: commit_transaction()
MongoCommit(st, fails) ==
    IF fails \/ st.session = "aborted"
    THEN [ok |-> FALSE, store |-> [db |-> st.committed, committed |-> st.committed,
                                    session |-> "idle"]]
    ELSE [ok |-> TRUE, store |-> [db |-> st.db, committed |-> st.db, session |-> "idle"]]

\* leaving it with an exception: abort_transaction()
MongoAbort(st) == [db |-> st.committed, committed |-> st.committed, session |-> "idle"]

\* DELETE FROM customers WHERE customer_id = ...; ON DELETE CASCADE removes
\* the customer's orders and their items and payments
DeleteCustomer(d, cid, cascade) ==
    IF ~cascade THEN [d EXCEPT !.customers = {r \in @ : r.customer_id /= cid}]
    ELSE [customers |-> {r \in d.customers : r.customer_id /= cid},
          orders |-> {r \in d.orders : r.customer_id /= cid},
          items |-> {r \in d.items :
                        \A q \in d.orders : q.order_id = r.order_id => q.customer_id /= cid},
          payments |-> {r \in d.payments :
                           \A q \in d.orders : q.order_id = r.order_id => q.customer_id /= cid},
          inventory |-> d.inventory]

\* what one statement checks and what it writes
StatementEffect(backend, d, s, o, p) ==
    CASE s.op = "reserve" ->
           LET it == o.items[s.item]
               d2 == Reserve(d, it.product_id, it.quantity)
           IN  [valid |-> \A r \in InventoryOf(d2, it.product_id) :
                              InventoryViolations(backend, r) = {},
                db |-> d2]
      [] s.op = "insert_order" ->
           IF backend = "pg"
           THEN [valid |-> PgOrderViolations(d, o) = {}, db |-> InsertOrder(d, o)]
           ELSE [valid |-> MongoOrderViolations(o) = {}, db |-> InsertOrderDoc(d, o)]
      [] s.op = "insert_items" ->
           [valid |-> \A k \in 1..Len(o.items) : PgOrderItemViolations(d, ItemRow(o, k)) = {},
            db |-> InsertItems(d, o, 1..Len(o.items))]
      [] s.op = "insert_payment" ->
           [valid |-> IF backend = "pg" THEN PgPaymentViolations(d, p) = {}
                      ELSE MongoPaymentViolations(p) = {},
            db |-> InsertPayment(d, p)]
      [] s.op = "confirm_order" ->
           [valid |-> TRUE, db |-> SetOrderStatus(d, o.order_id, "confirmed")]
      [] s.op = "confirm_payment" ->
           [valid |-> TRUE, db |-> SetPaymentStatus(d, p.payment_id, "completed")]
      [] s.op = "insert_customer" ->
           [valid |-> PgCustomerViolations(d, o.customer) = {},
            db |-> InsertCustomer(d, o.customer)]
      [] s.op = "delete_customer" ->
           [valid |-> TRUE, db |-> DeleteCustomer(d, o.customer_id, s.cascade)]
      [] OTHER -> [valid |-> TRUE, db |-> d]

\* the two raise ValueError statements after the inventory lookup
StockCheckFails(d, it) ==
    \/ InventoryOf(d, it.product_id) = {}
    \/ \E r \in InventoryOf(d, it.product_id) : InsufficientStock(r, it.quantity)

\* one statement against the connection or the session
ApplyEffect(st, backend, eff, forced, lost) ==
    IF backend = "pg" THEN PgExecute(st, ~forced /\ eff.valid, eff.db)
    ELSE MongoTxWrite(st, ~forced /\ eff.valid, eff.db, lost)

ExecuteStatement(st, backend, s, o, p, forced, lost) ==
    ApplyEffect(st, backend, StatementEffect(backend, st.db, s, o, p), forced, lost)

Prepend(e, rest) == [rest EXCEPT !.trace = << e >> \o @]

\* the body of the try block from statement k on; f is the statement the
\* backend fails although it is valid (0: none)
RECURSIVE RunStatements(_, _, _, _, _, _, _, _)
RECURSIVE AfterStatement(_, _, _, _, _, _, _, _)
AfterStatement(r, backend, stmts, k, o, p, f, lost) ==
    IF ~r.ok
    THEN [store |-> r.store, err |-> "Error", trace |-> << Event(stmts[k].op, FALSE) >>]
    ELSE IF stmts[k].op = "select_inventory"
            /\ StockCheckFails(r.store.db, o.items[stmts[k].item])
    THEN [store |-> r.store, err |-> "ValueError",
          trace |-> << Event(stmts[k].op, TRUE), Event("raise", TRUE) >>]
    ELSE Prepend(Event(stmts[k].op, TRUE),
                 RunStatements(r.store, backend, stmts, k + 1, o, p, f, lost))

RunStatements(st, backend, stmts, k, o, p, f, lost) ==
    IF k > Len(stmts) THEN [store |-> st, err |-> "none", trace |-> << >>]
    ELSE AfterStatement(ExecuteStatement(st, backend, stmts[k], o, p, k = f, lost),
                        backend, stmts, k, o, p, f, lost)

\* the end of process_order_transaction of PostgreSQL.py: commit, or the
\* except branch
PgFinish(r, commitFails) ==
    IF r.err = "none" /\ ~commitFails
    THEN [store |-> PgCommit(r.store), counted |-> "success", outcome |-> "committed",
          trace |-> r.trace \o << Event("commit", TRUE) >>]
    ELSE [store |-> PgRollback(r.store), counted |-> "failure", outcome |-> "rolled_back",
          trace |-> r.trace
                    \o (IF r.err = "none" THEN << Event("commit", FALSE) >> ELSE << >>)
                    \o << Event("rollback", TRUE) >>]

PgProcess(st, stmts, o, p, f, lost) ==
    PgFinish(RunStatements(st, "pg", stmts, 1, o, p, f, lost), f = Len(stmts) + 1)

\* process_order_transaction of PostgreSQL.py
PgProcessOrder(st, o, p, f, lost) == PgProcess(st, OrderStatements("pg", o), o, p, f, lost)

\* the end of process_order_transaction of mongo_test.py: the success is
\* counted inside the with block, the commit happens on leaving it
MongoCommitted(r, c) ==
    [store |-> c.store, counted |-> "success",
     outcome |-> IF c.ok THEN "committed" ELSE "commit_failed",
     trace |-> r.trace \o << Event("commit", c.ok) >>]

MongoFinish(r, commitFails) ==
    IF r.err = "none"
    THEN MongoCommitted(r, MongoCommit(r.store, commitFails))
    ELSE [store |-> MongoAbort(r.store), counted |-> "failure", outcome |-> "aborted",
          trace |-> r.trace \o << Event("abort", TRUE) >>]

MongoProcess(st, stmts, o, p, f, lost) ==
    MongoFinish(RunStatements([st EXCEPT !.session = "open"], "mongo", stmts, 1, o, p, f, lost),
                f = Len(stmts) + 1)

\* process_order_transaction of mongo_test.py
MongoProcessOrder(st, o, p, f, lost) ==
    MongoProcess(st, OrderStatements("mongo", o), o, p, f, lost)

ProcessOrder(st, backend, o, p, f, lost) ==
    IF backend = "pg" THEN PgProcessOrder(st, o, p, f, lost)
    ELSE MongoProcessOrder(st, o, p, f, lost)

NoComparison == [constraint_successes |-> 0, constraint_failures |-> 0,
                 successful_transactions |-> 0]
NoTransactions == [successful_transactions |-> 0, failed_transactions |-> 0,
                   rollback_tests |-> 0, transaction_times |-> 0]
NoTx == [kind |-> "none", order_id |-> << >>, payment_id |-> << >>, trace |-> << >>,
         outcome |-> "none"]

\* a handler that counts the failure and not the rollback
TallyWithoutRollbackTest(t, counted) ==
    IF counted = "success"
    THEN [t EXCEPT !.successful_transactions = @ + 1, !.transaction_times = @ + 1]
    ELSE [t EXCEPT !.failed_transactions = @ + 1]

\* the two tally updates of process_order_transaction; transaction_times is
\* kept as the number of its entries
Tally(t, counted) ==
    IF counted = "success"
    THEN [t EXCEPT !.successful_transactions = @ + 1, !.transaction_times = @ + 1]
    ELSE [t EXCEPT !.failed_transactions = @ + 1, !.rollback_tests = @ + 1]

FailPoints(backend, o) ==
    IF Faithful THEN {0} ELSE 0..(Len(OrderStatements(backend, o)) + 1)

\* only a failed statement of a MongoDB transaction can be lost on the way
LostChoices(backend, f) == IF backend = "mongo" /\ f /= 0 THEN BOOLEAN ELSE {FALSE}

TxRecord(kind, o, p, r) ==
    [kind |-> kind, order_id |-> o.order_id, payment_id |-> p.payment_id,
     trace |-> r.trace, outcome |-> r.outcome]

\* what test_multi_document_transactions keeps of one call
Processed(kind, o, p, r) ==
    /\ store' = r.store
    /\ transaction_results' = Tally(transaction_results, r.counted)
    /\ tx' = TxRecord(kind, o, p, r)

Process(kind, o, p) ==
    \E f \in FailPoints(cfg.backend, o) : \E lost \in LostChoices(cfg.backend, f) :
        Processed(kind, o, p, ProcessOrder(store, cfg.backend, o, p, f, lost))

ProcessWithPayment(kind, pid, o) == Process(kind, o, PaymentOf(pid, o))

\* one turn of "for i in range(1, 4)": build the order, process it
OrderTransaction ==
    /\ pc = "transactions"
    /\ \E q \in QuantityDraws(cfg.pool) :
          ProcessWithPayment("order", TxPaymentKey(idx), TxOrder(idx, q))
    /\ IF idx < TxOrderCount
       THEN idx' = idx + 1 /\ pc' = pc
       ELSE idx' = 0 /\ pc' = "rollback_probe"
    /\ UNCHANGED <<vprobe, prov, battery, crud, run, gen, rate, cfg, performance_comparison, validation_results, integrity_results, obs>>

\* Test 2: the order that asks for 99999 of PROD_000001
RollbackProbe ==
    /\ pc = "rollback_probe"
    /\ ProcessWithPayment("rollback_probe", Lit.PAY_ROLLBACK, RollbackOrder)
    /\ obs' = [obs EXCEPT !.before = store.committed]
    /\ pc' = "integrity"
    /\ UNCHANGED <<vprobe, prov, battery, crud, run, gen, rate, cfg, performance_comparison, idx, validation_results, integrity_results>>

(***************************************************************************)
(* test_referential_integrity                                              *)
(***************************************************************************)
NoIntegrity(backend) ==
    IF backend = "pg"
    THEN [orphaned_records_prevented |-> 0, integrity_violations |-> 0,
          constraint_enforcements |-> 0, cascade_deletes_successful |-> 0]
    ELSE [orphaned_records_created |-> 0, integrity_violations |-> 0,
          constraint_checks |-> 0]

OneItem(pid, quantity, price) ==
    << [product_id |-> pid, quantity |-> quantity, unit_price |-> price] >>

\* orphan_order: the customer id each script calls non-existent
OrphanOrder(backend) ==
    [order_id |-> Lit.ORD_ORPHAN01,
     customer_id |-> IF backend = "pg" THEN Lit.CUST_NOEXIST ELSE CustomerKey(999999),
     total_amount |-> 2599, status |-> "pending",
     items |-> OneItem(ProductKey(1), 1, 2599)]

InvalidProductOrder ==
    [order_id |-> Lit.ORD_BADPROD, customer_id |-> CustomerKey(1), total_amount |-> 2599,
     status |-> "pending", items |-> OneItem(Lit.PROD_INVALID, 1, 2599)]

ValidTestOrder ==
    [order_id |-> Lit.ORD_VALID001, customer_id |-> CustomerKey(1), total_amount |-> 10000,
     status |-> "pending", items |-> OneItem(ProductKey(1), 2, 5000)]

OrphanPayment ==
    [payment_id |-> Lit.PAY_ORPHAN01, order_id |-> Lit.ORD_NOEXIST, amount |-> 10000,
     method |-> "credit_card", status |-> "pending"]

WrongAmountPayment ==
    [payment_id |-> Lit.PAY_WRONG001, order_id |-> Lit.ORD_VALID001, amount |-> 15000,
     method |-> "credit_card", status |-> "pending"]

CustomerExists(d, cid) == \E r \in d.customers : r.customer_id = cid
OrderExists(d, oid) == \E r \in d.orders : r.order_id = oid

\* a harness that books every attempt as prevented
PgAttemptPrevented(t, accepted) ==
    [t EXCEPT !.constraint_enforcements = @ + 1, !.orphaned_records_prevented = @ + 1]

\* the counters of PostgreSQL.py after "try: execute; commit / except Error"
PgAttemptTally(t, accepted) ==
    IF accepted
    THEN [t EXCEPT !.integrity_violations = @ + 1]
    ELSE [t EXCEPT !.constraint_enforcements = @ + 1, !.orphaned_records_prevented = @ + 1]

\* the counters of mongo_test.py after a create_..._with_integrity_check call:
\* success is booked under the counter the try block names
MongoAttemptTally(t, accepted, counter) ==
    IF ~accepted THEN [t EXCEPT !.constraint_checks = @ + 1]
    ELSE IF counter = "integrity_violations" THEN [t EXCEPT !.integrity_violations = @ + 1]
    ELSE [t EXCEPT !.orphaned_records_created = @ + 1]

Attempt(probe, accepted, absent) ==
    [probe |-> probe, accepted |-> accepted, parent_absent |-> absent]

\* try: execute(INSERT); commit(); integrity_violations += 1
\* except Error: the two other counters; rollback()
PgAttempted(probe, r, absent) ==
    /\ store' = IF r.ok THEN r.store ELSE PgRollback(r.store)
    /\ integrity_results' = PgAttemptTally(integrity_results, r.ok)
    /\ obs' = [obs EXCEPT !.attempts = Append(@, Attempt(probe, r.ok, absent))]

\* create_order_with_integrity_check: what raises, what is inserted
MongoOrderChecked(st, o, a) ==
    IF ~CustomerExists(st.db, o.customer_id)
       \/ \E k \in 1..Len(o.items) : InventoryOf(st.db, o.items[k].product_id) = {}
    THEN [ok |-> FALSE, err |-> "ValueError", store |-> st]
    ELSE [err |-> "Exception"]
         @@ MongoWrite(st, Answer(a, MongoOrderViolations(o) = {}), InsertOrderDoc(st.db, o))

\* create_payment_with_integrity_check
MongoPaymentChecked(st, p, a) ==
    IF \/ ~OrderExists(st.db, p.order_id)
       \/ \E r \in st.db.orders : r.order_id = p.order_id /\ r.total_amount /= p.amount
    THEN [ok |-> FALSE, err |-> "ValueError", store |-> st]
    ELSE [err |-> "Exception"]
         @@ MongoWrite(st, Answer(a, MongoPaymentViolations(p) = {}), InsertPayment(st.db, p))

\* try: create_...(doc); counter += 1 / except ValueError / except Exception
MongoAttempted(probe, r, absent, counter) ==
    /\ store' = r.store
    /\ integrity_results' = MongoAttemptTally(integrity_results, r.ok, counter)
    /\ obs' = [obs EXCEPT !.attempts = Append(@, Attempt(probe, r.ok, absent))]

OrphanOrderProbe ==
    /\ pc = "integrity"
    /\ \E a \in BOOLEAN :
          IF cfg.backend = "pg"
          THEN PgAttempted("orphan_order",
                   ExecuteAndCommit(store, "pg",
                       Answer(a, PgOrderViolations(store.db, OrphanOrder("pg")) = {}),
                       InsertOrder(store.db, OrphanOrder("pg"))),
                   ~CustomerExists(store.db, OrphanOrder("pg").customer_id))
          ELSE MongoAttempted("orphan_order",
                   MongoOrderChecked(store, OrphanOrder("mongo"), a),
                   ~CustomerExists(store.db, OrphanOrder("mongo").customer_id),
                   "orphaned_records_created")
    /\ pc' = IF cfg.backend = "pg" THEN "ri_payment" ELSE "ri_product"
    /\ UNCHANGED <<vprobe, prov, battery, crud, run, gen, rate, cfg, performance_comparison, idx, validation_results, transaction_results, tx>>

\* only mongo_test.py tries an order with a product that is not in inventory
UnknownProductProbe ==
    /\ pc = "ri_product"
    /\ \E a \in BOOLEAN :
          MongoAttempted("unknown_product", MongoOrderChecked(store, InvalidProductOrder, a),
                         InventoryOf(store.db, Lit.PROD_INVALID) = {},
                         "orphaned_records_created")
    /\ pc' = "ri_payment"
    /\ UNCHANGED <<vprobe, prov, battery, crud, run, gen, rate, cfg, performance_comparison, idx, validation_results, transaction_results, tx>>

OrphanPaymentProbe ==
    /\ pc = "ri_payment"
    /\ \E a \in BOOLEAN :
          IF cfg.backend = "pg"
          THEN PgAttempted("orphan_payment",
                   ExecuteAndCommit(store, "pg",
                       Answer(a, PgPaymentViolations(store.db, OrphanPayment) = {}),
                       InsertPayment(store.db, OrphanPayment)),
                   ~OrderExists(store.db, OrphanPayment.order_id))
          ELSE MongoAttempted("orphan_payment", MongoPaymentChecked(store, OrphanPayment, a),
                   ~OrderExists(store.db, OrphanPayment.order_id),
                   "orphaned_records_created")
    /\ pc' = IF cfg.backend = "pg" THEN "ri_cascade" ELSE "ri_amount"
    /\ UNCHANGED <<vprobe, prov, battery, crud, run, gen, rate, cfg, performance_comparison, idx, validation_results, transaction_results, tx>>

\* after create_order_with_integrity_check(valid_test_order): the inner try, the
\* outer except ValueError, or an exception nothing catches
WrongAmountAfter(r1, a) ==
    IF r1.ok
    THEN /\ MongoAttempted("wrong_amount", MongoPaymentChecked(r1.store, WrongAmountPayment, a),
                           FALSE, "integrity_violations")
         /\ pc' = "consistency"
    ELSE /\ store' = r1.store
         /\ pc' = IF r1.err = "ValueError" THEN "consistency" ELSE "raised"
         /\ UNCHANGED <<integrity_results, obs>>

\* only mongo_test.py tries a payment whose amount differs from the order's
WrongAmountProbe ==
    /\ pc = "ri_amount"
    /\ \E a1 \in BOOLEAN, a2 \in BOOLEAN :
          WrongAmountAfter(MongoOrderChecked(store, ValidTestOrder, a1), a2)
    /\ idx' = 1
    /\ UNCHANGED <<vprobe, prov, battery, crud, run, gen, rate, cfg, performance_comparison, validation_results, transaction_results, tx>>

CascadeOrder ==
    [order_id |-> Lit.ORD_CASCADE, customer_id |-> CustomerKey(999998),
     total_amount |-> 5000, status |-> "pending", items |-> << >>,
     customer |->
        [customer_id |-> CustomerKey(999998), email |-> Lit.CascadeEmail,
         name |-> Lit.CascadeName, phone |-> Lit.ValidPhone, street |-> Lit.CascadeStreet,
         city |-> Lit.TestCity, country |-> Lit.USA, created_at |-> "date", status |-> "active"]]

CascadePayment ==
    [payment_id |-> Lit.PAY_CASCADE, order_id |-> Lit.ORD_CASCADE, amount |-> 5000,
     method |-> "credit_card", status |-> "completed"]

CascadeInserts ==
    << [op |-> "insert_customer", item |-> 0], [op |-> "insert_order", item |-> 0],
       [op |-> "insert_payment", item |-> 0] >>

CascadeDelete(cascade) == << [op |-> "delete_customer", item |-> 0, cascade |-> cascade] >>

\* SELECT COUNT(*) FROM orders WHERE customer_id = ... / FROM payments WHERE order_id = ...
CountOrders(d, cid) == Cardinality({r \in d.orders : r.customer_id = cid})
CountPayments(d, oid) == Cardinality({r \in d.payments : r.order_id = oid})

\* the if / else after the delete was committed
CascadeTally(t, orders_before, orders_after, payments_before, payments_after) ==
    IF orders_before > 0 /\ orders_after = 0 /\ payments_before > 0 /\ payments_after = 0
    THEN [t EXCEPT !.cascade_deletes_successful = @ + 1, !.constraint_enforcements = @ + 1]
    ELSE [t EXCEPT !.integrity_violations = @ + 1]

CascadeCompared(before, after) ==
    /\ store' = after
    /\ integrity_results' =
          CascadeTally(integrity_results,
                       CountOrders(before.db, CascadeOrder.customer_id),
                       CountOrders(after.db, CascadeOrder.customer_id),
                       CountPayments(before.db, CascadeOrder.order_id),
                       CountPayments(after.db, CascadeOrder.order_id))
    /\ obs' = [obs EXCEPT !.attempts =
                  Append(@, Attempt("cascade", TRUE,
                                    CountOrders(after.db, CascadeOrder.customer_id) > 0))]

\* after the DELETE: commit and compare, or except Error: rollback()
CascadeDeleted(before, r2) ==
    IF r2.err = "none" THEN CascadeCompared(before, PgCommit(r2.store))
    ELSE store' = PgRollback(r2.store) /\ UNCHANGED <<integrity_results, obs>>

\* after the three INSERTs: commit and delete, or except Error: rollback()
CascadeInserted(r1, deleteFails, cascade) ==
    IF r1.err = "none"
    THEN CascadeDeleted(PgCommit(r1.store),
                        RunStatements(PgCommit(r1.store), "pg", CascadeDelete(cascade), 1,
                                      CascadeOrder, CascadePayment,
                                      IF deleteFails THEN 1 ELSE 0, FALSE))
    ELSE store' = PgRollback(r1.store) /\ UNCHANGED <<integrity_results, obs>>

\* only PostgreSQL.py deletes a customer to see its orders and payments go
CascadeProbe ==
    /\ pc = "ri_cascade"
    /\ \E f \in (IF Faithful THEN {0} ELSE 0..(Len(CascadeInserts) + 1)),
          cascade \in (IF Faithful THEN {TRUE} ELSE BOOLEAN) :
          CascadeInserted(RunStatements(store, "pg", CascadeInserts, 1, CascadeOrder,
                                        CascadePayment, f, FALSE),
                          f = Len(CascadeInserts) + 1, cascade)
    /\ pc' = "consistency"
    /\ idx' = 1
    /\ UNCHANGED <<vprobe, prov, battery, crud, run, gen, rate, cfg, performance_comparison, validation_results, transaction_results, tx>>

(***************************************************************************)
(* analyze_consistency_performance                                         *)
(***************************************************************************)
MaxSpeedOrders == 2
MaxPairs == 2

\* test_orders[i]; PostgreSQL.py inserts the order row only
SpeedOrder(i, c) ==
    [order_id |-> SpeedOrderKey(i), customer_id |-> CustomerKey(c), total_amount |-> 2599,
     status |-> "pending",
     items |-> << [product_id |-> ProductKey(1), quantity |-> 1, unit_price |-> UnitPrice],
                  [product_id |-> ProductKey(2), quantity |-> 1, unit_price |-> UnitPrice] >>]

PerfOrder(i) ==
    [order_id |-> PerfOrderKey(i), customer_id |-> CustomerKey(1), total_amount |-> 2599,
     status |-> "pending", items |-> OneItem(ProductKey(1), 1, UnitPrice)]

PerfPayment(i) ==
    [payment_id |-> PerfPaymentKey(i), order_id |-> PerfOrderKey(i), amount |-> 2599,
     method |-> "credit_card", status |-> "pending"]

\* Test 1: the inserts into a table or collection without constraints, which
\* nothing guards; its rows are dropped again at the end of the probe
UnconstrainedInserts ==
    /\ pc = "consistency"
    /\ \E a \in BOOLEAN :
          IF Answer(a, TRUE)
          THEN /\ store' = IF cfg.backend = "pg" THEN PgCommit(store) ELSE store
               /\ pc' = "constrained"
          ELSE /\ store' = IF cfg.backend = "pg"
                           THEN [store EXCEPT !.session = "aborted"] ELSE store
               /\ pc' = "raised"
    /\ idx' = 0
    /\ UNCHANGED <<vprobe, prov, battery, crud, run, gen, rate, cfg, performance_comparison, validation_results,
                   transaction_results, integrity_results, tx, obs>>

ConstrainedWrite(st, backend, o, a) ==
    IF backend = "pg"
    THEN ExecuteAndCommit(st, "pg", Answer(a, PgOrderViolations(st.db, o) = {}),
                          InsertOrder(st.db, o))
    ELSE MongoWrite(st, Answer(a, MongoOrderViolations(o) = {}), InsertOrderDoc(st.db, o))

\* try: insert; successes += 1 / except: failures += 1 (and rollback())
ConstrainedInserted(r) ==
    /\ store' = IF ~r.ok /\ cfg.backend = "pg" THEN PgRollback(r.store) ELSE r.store
    /\ performance_comparison' =
          IF r.ok THEN [performance_comparison EXCEPT !.constraint_successes = @ + 1]
          ELSE [performance_comparison EXCEPT !.constraint_failures = @ + 1]

\* Test 2: one turn of "for order in test_orders"
ConstrainedInsert ==
    /\ pc = "constrained"
    /\ \E a \in BOOLEAN, c \in 1..SampleCustomers :
          ConstrainedInserted(ConstrainedWrite(store, cfg.backend, SpeedOrder(idx, c), a))
    /\ IF idx + 1 < MaxSpeedOrders
       THEN idx' = idx + 1 /\ pc' = pc
       ELSE idx' = 0 /\ pc' = "paired"
    /\ UNCHANGED <<vprobe, prov, battery, crud, run, gen, rate, cfg, validation_results, transaction_results,
                   integrity_results, tx, obs>>

PairStatements(backend) ==
    (IF backend = "pg" THEN << [op |-> "begin", item |-> 0] >> ELSE << >>)
    \o << [op |-> "insert_order", item |-> 0], [op |-> "insert_payment", item |-> 0] >>

\* mongo_test.py: "except Exception: pass" sits inside the with block, so the
\* block is left normally and commit_transaction() runs whatever happened
MongoPairCommitted(r, c) ==
    [store |-> c.store, counted |-> IF r.err = "none" THEN "success" ELSE "failure",
     outcome |-> IF c.ok THEN "committed" ELSE "commit_failed",
     trace |-> r.trace \o << Event("commit", c.ok) >>]

MongoPairFinish(r, commitFails) == MongoPairCommitted(r, MongoCommit(r.store, commitFails))

ProcessPair(st, backend, stmts, o, p, f, lost) ==
    IF backend = "pg" THEN PgProcess(st, stmts, o, p, f, lost)
    ELSE MongoPairFinish(RunStatements([st EXCEPT !.session = "open"], "mongo", stmts, 1,
                                       o, p, f, lost),
                         f = Len(stmts) + 1)

\* a commit_transaction() that raises is caught by nothing
PairProcessed(o, p, r) ==
    /\ store' = r.store
    /\ performance_comparison' =
          IF r.counted = "success"
          THEN [performance_comparison EXCEPT !.successful_transactions = @ + 1]
          ELSE performance_comparison
    /\ tx' = TxRecord("pair", o, p, r)
    /\ IF r.outcome = "commit_failed" THEN pc' = "raised" /\ idx' = idx
       ELSE IF idx + 1 < MaxPairs THEN pc' = pc /\ idx' = idx + 1
       ELSE pc' = "done" /\ idx' = 0

\* Test 3: one turn of "for i in range(10)"
PairedTransaction ==
    /\ pc = "paired"
    /\ \E f \in (IF Faithful THEN {0} ELSE 0..(Len(PairStatements(cfg.backend)) + 1)) :
          \E lost \in LostChoices(cfg.backend, f) :
             PairProcessed(PerfOrder(idx), PerfPayment(idx),
                           ProcessPair(store, cfg.backend, PairStatements(cfg.backend),
                                       PerfOrder(idx), PerfPayment(idx), f, lost))
    /\ UNCHANGED <<vprobe, prov, battery, crud, run, gen, rate, cfg, validation_results, transaction_results,
                   integrity_results, obs>>

InitIntegrity ==
    /\ vprobe = ProbeOff /\ prov = ProvOff /\ battery = BatteryOff /\ crud = CrudOff
    /\ run = RunOff
    /\ gen = GenIdle /\ rate = RateIdle
    /\ cfg \in [backend : Backends, pool : {"reduced"},
                lax : {"none", "provisioning", "validation", "transactions", "integrity",
                       "consistency"}]
    /\ pc = "setup"
    /\ idx = 0
    /\ store = FreshStore
    /\ validation_results = NoValidation
    /\ transaction_results = NoTransactions
    /\ integrity_results = NoIntegrity(cfg.backend)
    /\ performance_comparison = NoComparison
    /\ tx = NoTx
    /\ obs = NoObservation

Next ==
    \/ SetupValidationSchemas
    \/ CreateSampleEcommerceData
    \/ ValidCustomerProbe
    \/ InvalidCustomerProbe
    \/ ValidOrderProbe
    \/ InvalidOrderProbe
    \/ OrderTransaction
    \/ RollbackProbe
    \/ OrphanOrderProbe
    \/ UnknownProductProbe
    \/ OrphanPaymentProbe
    \/ WrongAmountProbe
    \/ CascadeProbe
    \/ UnconstrainedInserts
    \/ ConstrainedInsert
    \/ PairedTransaction

Spec == InitIntegrity /\ [][Next]_vars

ValidationDone == pc = "transactions"
Mismatches == {k \in 1..Len(obs.outcomes) : obs.outcomes[k].expected /= obs.outcomes[k].accepted}
ValidationProbes == 1 + Len(InvalidCustomers(cfg.backend)) + 2

\* C5: against a faithful backend the validation probe accepts both valid
\* records, rejects every invalid one and ends with validation_errors empty.
ValidationProbeFaithful ==
    (cfg.lax = "none" /\ ValidationDone) =>
        /\ validation_results.valid_insertions = 2
        /\ validation_results.invalid_insertions_blocked = 4
        /\ validation_results.validation_errors = <<>>

\* C10: whatever each probe's outcome, test_data_validation runs all six
\* probes, appends one entry per mismatch and tallies the other outcomes.
ValidationSoftFailure ==
    /\ Len(validation_results.validation_errors) = Cardinality(Mismatches)
    /\ validation_results.valid_insertions =
          Cardinality({k \in 1..Len(obs.outcomes) :
                          obs.outcomes[k].expected /\ obs.outcomes[k].accepted})
    /\ validation_results.invalid_insertions_blocked =
          Cardinality({k \in 1..Len(obs.outcomes) :
                          ~obs.outcomes[k].expected /\ ~obs.outcomes[k].accepted})
    /\ ValidationDone => Len(obs.outcomes) = ValidationProbes

\* both kinds of mismatch happened and the probe still ran to its end
ValidationEndedWithMismatches ==
    /\ ValidationDone
    /\ \E k \in Mismatches : obs.outcomes[k].expected
    /\ \E k \in Mismatches : ~obs.outcomes[k].expected
    /\ Len(validation_results.validation_errors) >= 3

(***************************************************************************)
(* The transaction probe against a faithful backend, over every draw of    *)
(* stocks and quantities.                                                  *)
(***************************************************************************)
InitTx ==
    /\ vprobe = ProbeOff /\ prov = ProvOff /\ battery = BatteryOff /\ crud = CrudOff
    /\ run = RunOff
    /\ gen = GenIdle /\ rate = RateIdle
    /\ cfg \in [backend : Backends, pool : {"full"}, lax : {"none"}]
    /\ pc = "setup"
    /\ idx = 0
    /\ store = FreshStore
    /\ validation_results = NoValidation
    /\ transaction_results = NoTransactions
    /\ integrity_results = NoIntegrity(cfg.backend)
    /\ performance_comparison = NoComparison
    /\ tx = NoTx
    /\ obs = NoObservation

NextTx ==
    \/ SetupValidationSchemas
    \/ CreateSampleEcommerceData
    \/ ValidCustomerProbe
    \/ InvalidCustomerProbe
    \/ ValidOrderProbe
    \/ InvalidOrderProbe
    \/ OrderTransaction
    \/ RollbackProbe

SpecTx == InitTx /\ [][NextTx]_vars

TransactionProbeDone == pc = "integrity"

\* C4: whatever stocks and quantities are drawn, the transaction probe ends
\* with three successful transactions, one failed one and one rollback test.
TransactionProbeTallies ==
    TransactionProbeDone =>
        /\ transaction_results.successful_transactions = 3
        /\ transaction_results.failed_transactions = 1
        /\ transaction_results.rollback_tests = 1

\* the three orders each took the largest quantity of a product at minimum stock
TransactionProbeTightStock ==
    /\ TransactionProbeDone
    /\ \E r \in store.committed.inventory :
          /\ r.product_id = ProductKey(1)
          /\ r.stock_quantity = StockMin
          /\ r.reserved_quantity = 9

RollbackProbeDone == pc = "integrity" /\ tx.kind = "rollback_probe"

\* C3: after the rollback probe every table or collection is in its
\* pre-transaction state: no row under ORD_ROLLBACK or PAY_ROLLBACK and no
\* reservation left on the inventory.
RollbackLeavesNoTrace ==
    RollbackProbeDone =>
        /\ store.db = obs.before
        /\ store.committed = obs.before
        /\ \A r \in store.db.orders : r.order_id /= Lit.ORD_ROLLBACK
        /\ \A r \in store.db.items : r.order_id /= Lit.ORD_ROLLBACK
        /\ \A r \in store.db.payments : r.payment_id /= Lit.PAY_ROLLBACK

\* the probe ran after committed orders had reserved stock, and its stock
\* check raised
RollbackProbeRaised ==
    /\ RollbackProbeDone
    /\ \E k \in 1..Len(tx.trace) : tx.trace[k].op = "raise"
    /\ tx.outcome \in {"rolled_back", "aborted"}
    /\ \E r \in obs.before.inventory : r.reserved_quantity > 0

AttemptsOf(probes) == {k \in 1..Len(obs.attempts) : obs.attempts[k].probe \in probes}
AcceptedOf(probes) == {k \in AttemptsOf(probes) : obs.attempts[k].accepted}
IntegrityProbeDone == pc \in {"consistency", "raised"}

\* C7: in the phase's order of probes, against a faithful backend, the orphan
\* order and the orphan payment reference a parent that is absent, are
\* rejected, and leave no row behind.
OrphanAttemptsRejected ==
    cfg.lax = "none" =>
        /\ \A k \in AttemptsOf({"orphan_order", "orphan_payment"}) :
               obs.attempts[k].parent_absent /\ ~obs.attempts[k].accepted
        /\ ~OrderExists(store.db, Lit.ORD_ORPHAN01)
        /\ \A r \in store.db.payments : r.payment_id /= Lit.PAY_ORPHAN01

\* C8 as stated: integrity_violations counts exactly the attempts that were
\* expected to be rejected and succeeded.
ViolationsCountAcceptedAttempts ==
    integrity_results.integrity_violations =
        Cardinality(AcceptedOf({"orphan_order", "orphan_payment", "unknown_product",
                                "wrong_amount"}))

\* C8: PostgreSQL.py counts in integrity_violations an accepted orphan order or
\* orphan payment and a delete that left child rows behind; mongo_test.py
\* counts there only an accepted wrong-amount payment and books every other
\* accepted attempt under orphaned_records_created.
ViolationsCountedPerBackend ==
    IF cfg.backend = "pg"
    THEN integrity_results.integrity_violations =
             Cardinality(AcceptedOf({"orphan_order", "orphan_payment"}))
             + Cardinality({k \in AttemptsOf({"cascade"}) : obs.attempts[k].parent_absent})
    ELSE /\ integrity_results.integrity_violations = Cardinality(AcceptedOf({"wrong_amount"}))
         /\ integrity_results.orphaned_records_created =
                Cardinality(AcceptedOf({"orphan_order", "unknown_product", "orphan_payment"}))

\* both orphans were accepted and the delete left the children behind
ThreeViolationsCounted ==
    /\ IntegrityProbeDone
    /\ cfg.backend = "pg"
    /\ AcceptedOf({"orphan_order", "orphan_payment"}) /= {}
    /\ \E k \in AttemptsOf({"cascade"}) : obs.attempts[k].parent_absent
    /\ integrity_results.integrity_violations = 3

(***************************************************************************)
(* Multi-write transactions                                                *)
(***************************************************************************)
FailedWrites(trace) == {i \in 1..Len(trace) : trace[i].write /\ ~trace[i].ok}

UndoRequestedAfter(trace, i) ==
    \E j \in (i + 1)..Len(trace) : trace[j].op \in {"rollback", "abort"}

CommitAttemptedAfter(trace, i) ==
    \E j \in (i + 1)..Len(trace) : trace[j].op = "commit"

\* the orders written by process_order_transaction and by the paired
\* transactions of analyze_consistency_performance
TransactionOrderIds ==
    {TxOrderKey(i) : i \in 1..TxOrderCount} \cup {Lit.ORD_ROLLBACK}
    \cup {PerfOrderKey(i) : i \in 0..(MaxPairs - 1)}

\* C6: in every multi-write transaction of the harness (process_order_transaction
\* and the paired order+payment transactions), a failed write is followed by a
\* rollback or abort request and by no commit attempt, and no order of such a
\* transaction is committed without a payment row of its own.
TransactionsNeverHalfApplied ==
    /\ \A i \in FailedWrites(tx.trace) :
          UndoRequestedAfter(tx.trace, i) /\ ~CommitAttemptedAfter(tx.trace, i)
    /\ \A r \in store.committed.orders :
          r.order_id \in TransactionOrderIds
             => \E q \in store.committed.payments : q.order_id = r.order_id

\* the same statement for the transactions of PostgreSQL.py and for
\* process_order_transaction of mongo_test.py, where it holds
OtherTransactionsNeverHalfApplied ==
    cfg.backend = "pg" \/ tx.kind /= "pair" => TransactionsNeverHalfApplied

\* a paired transaction of mongo_test.py has committed its order although
\* the payment insert failed
OrderCommittedWithoutPayment ==
    /\ tx.kind = "pair"
    /\ \E r \in store.committed.orders :
          /\ r.order_id = tx.order_id
          /\ \A q \in store.committed.payments : q.order_id /= r.order_id

(***************************************************************************)
(* The run of a whole script: PostgreSQLTest() followed by                 *)
(* run_complete_evaluation(), and DatabaseComparison() followed by         *)
(* run_full_comparison().  A connect or CREATE step is answered as the     *)
(* backend likes; every other statement is accepted unless the PostgreSQL  *)
(* transaction is aborted.  run.later collects the steps the backend       *)
(* accepted after the first failed connect or CREATE step.                 *)
(***************************************************************************)
CrudSizes == 3

RunStart(program) ==
    [program |-> program, pc |-> "connect", size |-> 0, pg |-> "none", mongo |-> FALSE,
     failed |-> "none", later |-> {}, status |-> "running"]

Failed(r, kind) == IF r.failed = "none" THEN [r EXCEPT !.failed = kind] ELSE r
Did(r, steps) == IF r.failed = "none" THEN r ELSE [r EXCEPT !.later = @ \cup steps]
At(r, p) == [r EXCEPT !.pc = p]
Raised(r) == [r EXCEPT !.status = "raised", !.pc = "end"]
Completed(r) == [r EXCEPT !.status = "completed", !.pc = "end"]

\* cursor.execute of a CREATE statement, autocommit off
CreateAccepted(r, ok) == ok /\ r.pg = "idle"

\* try: CREATE ...; commit()  except Error: (no rollback)
PgCreate(r, ok, steps) ==
    IF CreateAccepted(r, ok) THEN Did(r, steps)
    ELSE [Failed(r, "create") EXCEPT !.pg = IF r.pg = "none" THEN "none" ELSE "aborted"]

\* PostgreSQLTest.__init__: except Error: raise
PgConnect ==
    /\ run.program = "pg" /\ run.pc = "connect"
    /\ \E ok \in BOOLEAN :
          run' = IF ok THEN At([run EXCEPT !.pg = "idle"], "setup_database")
                 ELSE Raised(Failed(run, "connect"))
    /\ UNCHANGED <<vprobe, prov, battery, crud, gen, rate, integrityVars>>

\* setup_database and clear_data: DROP TABLE IF EXISTS, failures passed over
SetupDatabase ==
    /\ run.program = "pg" /\ run.pc = "setup_database"
    /\ run' = At(run, "test_1")
    /\ UNCHANGED <<vprobe, prov, battery, crud, gen, rate, integrityVars>>

\* test_1_basic_schema, test_2_schema_evolution,
\* test_3_complex_nested_structures: "except Error: return 0" around the
\* CREATE statements, the inserts after it
SchemaTest(r, name, next, ok) ==
    At(PgCreate(r, ok, {<<name, "create">>, <<name, "insert">>}), next)

BasicSchema ==
    /\ run.program = "pg" /\ run.pc = "test_1"
    /\ \E ok \in BOOLEAN : run' = SchemaTest(run, "test_1", "test_2", ok)
    /\ UNCHANGED <<vprobe, prov, battery, crud, gen, rate, integrityVars>>

SchemaEvolution ==
    /\ run.program = "pg" /\ run.pc = "test_2"
    /\ \E ok \in BOOLEAN : run' = SchemaTest(run, "test_2", "test_3", ok)
    /\ UNCHANGED <<vprobe, prov, battery, crud, gen, rate, integrityVars>>

ComplexStructures ==
    /\ run.program = "pg" /\ run.pc = "test_3"
    /\ \E ok \in BOOLEAN : run' = SchemaTest(run, "test_3", "test_4", ok)
    /\ UNCHANGED <<vprobe, prov, battery, crud, gen, rate, integrityVars>>

\* test_4_query_flexibility: each query in its own try; when all six fail
\* the average divides by the length of an empty list
QueryFlexibility ==
    /\ run.program = "pg" /\ run.pc = "test_4"
    /\ run' = IF run.pg = "idle"
              THEN [Did(run, {<<"test_4", "query">>}) EXCEPT !.pc = "crud", !.size = 1]
              ELSE Raised(run)
    /\ UNCHANGED <<vprobe, prov, battery, crud, gen, rate, integrityVars>>

NextSize(r, after) ==
    IF r.size < CrudSizes THEN [r EXCEPT !.size = @ + 1] ELSE [r EXCEPT !.size = 0, !.pc = after]

\* test_crud_performance, one dataset size: "except Error: continue" around
\* DROP / CREATE, then the insert, the reads, the updates and the delete
CrudSize ==
    /\ run.program = "pg" /\ run.pc = "crud"
    /\ \E ok \in BOOLEAN :
          run' = NextSize(PgCreate(run, ok, {<<"crud", "create">>, <<"crud", "insert">>,
                                             <<"crud", "query">>}),
                          "integrity_setup")
    /\ UNCHANGED <<vprobe, prov, battery, crud, gen, rate, integrityVars>>

\* run_objective_3_data_integrity up to "if not self.setup_validation_schemas()":
\* rollback() and return None
IntegritySetup ==
    /\ run.program = "pg" /\ run.pc = "integrity_setup"
    /\ \E ok \in BOOLEAN :
          run' = IF CreateAccepted(run, ok)
                 THEN At(Did(run, {<<"integrity", "create">>}), "integrity_tests")
                 ELSE At([Failed(run, "create") EXCEPT !.pg = "idle"], "summary")
    /\ UNCHANGED <<vprobe, prov, battery, crud, gen, rate, integrityVars>>

\* create_sample_ecommerce_data and the four probes
IntegrityTests ==
    /\ run.program = "pg" /\ run.pc = "integrity_tests"
    /\ run' = At(Did(run, {<<"integrity", "insert">>, <<"integrity", "query">>}), "summary")
    /\ UNCHANGED <<vprobe, prov, battery, crud, gen, rate, integrityVars>>

\* generate_summary (one SELECT outside any try), create_visualizations and
\* "Evaluation completed successfully."
Summary ==
    /\ run.program = "pg" /\ run.pc = "summary"
    /\ run' = IF run.pg = "idle" THEN Completed(Did(run, {<<"summary", "query">>}))
              ELSE Raised(run)
    /\ UNCHANGED <<vprobe, prov, battery, crud, gen, rate, integrityVars>>

\* DatabaseComparison.__init__: each connect in its own try, the handle set
\* to None on failure
ComparisonConnected(r, mongoOk, pgOk) ==
    At([(IF mongoOk /\ pgOk THEN r ELSE Failed(r, "connect"))
           EXCEPT !.mongo = mongoOk, !.pg = IF pgOk THEN "idle" ELSE "none"],
       "objective_1")

ComparisonConnect ==
    /\ run.program = "comparison" /\ run.pc = "connect"
    /\ \E mongoOk \in BOOLEAN, pgOk \in BOOLEAN : run' = ComparisonConnected(run, mongoOk, pgOk)
    /\ UNCHANGED <<vprobe, prov, battery, crud, gen, rate, integrityVars>>

\* "if self.mongo_client:" ...
MongoPart(r, steps) == IF r.mongo THEN Did(r, steps) ELSE r

\* "if self.postgres_conn:" try: CREATE ...; inserts ...  except Exception
PgPart(r, ok, steps) == IF r.pg = "none" THEN r ELSE PgCreate(r, ok, steps)

\* run_objective_1_schema_flexibility: basic schema, then schema evolution
ComparisonObjective1 ==
    /\ run.program = "comparison" /\ run.pc = "objective_1"
    /\ \E ok1 \in BOOLEAN, ok2 \in BOOLEAN :
          run' = [PgPart(MongoPart(PgPart(MongoPart(run, {<<"basic", "mongo_insert">>}),
                                          ok1, {<<"basic", "create">>, <<"basic", "insert">>}),
                                   {<<"evolution", "mongo_insert">>}),
                         ok2, {<<"evolution", "create">>, <<"evolution", "insert">>})
                    EXCEPT !.pc = "objective_2", !.size = 1]
    /\ UNCHANGED <<vprobe, prov, battery, crud, gen, rate, integrityVars>>

\* run_objective_2_performance, one dataset size
ComparisonObjective2 ==
    /\ run.program = "comparison" /\ run.pc = "objective_2"
    /\ \E ok \in BOOLEAN :
          run' = NextSize(PgPart(MongoPart(run, {<<"crud", "mongo_insert">>,
                                                 <<"crud", "mongo_query">>}),
                                 ok, {<<"crud", "create">>, <<"crud", "insert">>,
                                      <<"crud", "query">>}),
                          "objective_3")
    /\ UNCHANGED <<vprobe, prov, battery, crud, gen, rate, integrityVars>>

\* run_objective_3_data_integrity: create_collection(..., validator=...) is
\* outside any try, the PostgreSQL part is inside one
MongoIntegrityCreated(r, ok) ==
    IF ~r.mongo THEN r
    ELSE IF ok THEN Did(r, {<<"integrity", "mongo_create">>, <<"integrity", "mongo_insert">>})
    ELSE Raised(Failed(r, "create"))

ComparisonIntegrity(r, ok) ==
    IF r.status = "raised" THEN r
    ELSE At(PgPart(r, ok, {<<"integrity", "create">>, <<"integrity", "insert">>}), "finish")

ComparisonObjective3 ==
    /\ run.program = "comparison" /\ run.pc = "objective_3"
    /\ \E mongoOk \in BOOLEAN, ok \in BOOLEAN :
          run' = ComparisonIntegrity(MongoIntegrityCreated(run, mongoOk), ok)
    /\ UNCHANGED <<vprobe, prov, battery, crud, gen, rate, integrityVars>>

\* the graphs, save_results_to_file and
\* "Database comparison completed successfully!"
ComparisonFinish ==
    /\ run.program = "comparison" /\ run.pc = "finish"
    /\ run' = Completed(run)
    /\ UNCHANGED <<vprobe, prov, battery, crud, gen, rate, integrityVars>>

\* MongoDBExperiment.__init__ and clear_data: MongoClient connects on the
\* first operation, delete_many, which no try surrounds
MongoConnect ==
    /\ run.program = "mongo" /\ run.pc = "connect"
    /\ \E ok \in BOOLEAN :
          run' = IF ok THEN At([run EXCEPT !.mongo = TRUE], "schema_tests")
                 ELSE Raised(Failed(run, "connect"))
    /\ UNCHANGED <<vprobe, prov, battery, crud, gen, rate, integrityVars>>

\* test_1 .. test_4 of mongo_test.py: inserts and queries, no CREATE step
MongoSchemaTests ==
    /\ run.program = "mongo" /\ run.pc = "schema_tests"
    /\ run' = [Did(run, {<<"schema", "mongo_insert">>, <<"schema", "mongo_query">>})
                 EXCEPT !.pc = "crud", !.size = 1]
    /\ UNCHANGED <<vprobe, prov, battery, crud, gen, rate, integrityVars>>

\* test_crud_performance of mongo_test.py, one dataset size
MongoCrudSize ==
    /\ run.program = "mongo" /\ run.pc = "crud"
    /\ run' = NextSize(Did(run, {<<"crud", "mongo_insert">>, <<"crud", "mongo_query">>}),
                       "integrity_setup")
    /\ UNCHANGED <<vprobe, prov, battery, crud, gen, rate, integrityVars>>

\* run_objective_3_data_integrity of mongo_test.py up to
\* "if not self.setup_validation_schemas(): return None"
MongoIntegritySetup ==
    /\ run.program = "mongo" /\ run.pc = "integrity_setup"
    /\ \E ok \in BOOLEAN :
          run' = IF ok THEN At(Did(run, {<<"integrity", "mongo_create">>}), "integrity_tests")
                 ELSE At(Failed(run, "create"), "summary")
    /\ UNCHANGED <<vprobe, prov, battery, crud, gen, rate, integrityVars>>

MongoIntegrityTests ==
    /\ run.program = "mongo" /\ run.pc = "integrity_tests"
    /\ run' = At(Did(run, {<<"integrity", "mongo_insert">>, <<"integrity", "mongo_query">>}),
                 "summary")
    /\ UNCHANGED <<vprobe, prov, battery, crud, gen, rate, integrityVars>>

\* the rest of run_complete_evaluation of mongo_test.py: count_documents on
\* every collection, dbstats, the visualizations, the export, return {...}
MongoSummary ==
    /\ run.program = "mongo" /\ run.pc = "summary"
    /\ run' = Completed(Did(run, {<<"summary", "mongo_query">>}))
    /\ UNCHANGED <<vprobe, prov, battery, crud, gen, rate, integrityVars>>

InitRun ==
    /\ vprobe = ProbeOff /\ prov = ProvOff /\ battery = BatteryOff /\ crud = CrudOff
    /\ run \in {RunStart(program) : program \in {"pg", "mongo", "comparison"}}
    /\ gen = GenIdle /\ rate = RateIdle /\ IntegrityOff

NextRun ==
    \/ PgConnect
    \/ SetupDatabase
    \/ BasicSchema
    \/ SchemaEvolution
    \/ ComplexStructures
    \/ QueryFlexibility
    \/ CrudSize
    \/ IntegritySetup
    \/ IntegrityTests
    \/ Summary
    \/ ComparisonConnect
    \/ ComparisonObjective1
    \/ ComparisonObjective2
    \/ ComparisonObjective3
    \/ ComparisonFinish
    \/ MongoConnect
    \/ MongoSchemaTests
    \/ MongoCrudSize
    \/ MongoIntegritySetup
    \/ MongoIntegrityTests
    \/ MongoSummary

SpecRun == InitRun /\ [][NextRun]_vars

\* C9: once a connect or CREATE step has failed, the backend is given no
\* later step to execute and the run does not end as completed: it reports
\* the failure to its caller.
HardFailuresStopTheRun ==
    run.failed /= "none" => run.later = {} /\ run.status /= "completed"

\* the part that holds: a failed connect of PostgreSQLTest() ends the run
\* at once with the exception
PgConnectFailureIsHard ==
    run.program = "pg" /\ run.failed = "connect" => run.later = {} /\ run.status = "raised"

\* a CREATE step of test_crud_performance failed and the run ended as completed
CompletedAfterFailedCreate ==
    run.program = "pg" /\ run.failed = "create" /\ run.status = "completed"

(***************************************************************************)
(* test_crud_performance of PostgreSQL.py and mongo_test.py, and the two   *)
(* branches of run_objective_2_performance of database_comparison.py       *)
(* (scripts "cmp_mongo" and "cmp_pg": they use different databases and are *)
(* followed one at a time).  A dataset size is scaled down to a few rows;  *)
(* of a row only the id and whether its created_at is older than 300 days  *)
(* are kept, the other fields are read by no count.                        *)
(***************************************************************************)
\* rows of the smallest dataset; the k-th dataset has k times as many
CrudScale == 1

ScaledSize(k) == k * CrudScale

CrudScripts == {"pg", "mongo", "cmp_pg", "cmp_mongo"}
IsPg(script) == script \in {"pg", "cmp_pg"}

\* the steps of one turn of "for size in dataset_sizes", in program order
CrudSteps ==
    << "recreate", "generate", "create", "read", "narrow_update", "broad_update",
       "count_before", "delete", "count_after", "store" >>

StepAfter(step) == CrudSteps[(CHOOSE i \in 1..Len(CrudSteps) : CrudSteps[i] = step) + 1]

\* the calls between start_time = time.time() and time.time() - start_time
TimedSteps == {"create", "read", "narrow_update", "broad_update", "delete"}

\* what surrounds the call of a step:
\*   PostgreSQL.py: "except Error: continue" around DROP / CREATE,
\*   "except Error: read_times.append(0)" around each read query, nothing else;
\*   mongo_test.py and the MongoDB branch of the driver: no try at all;
\*   the PostgreSQL branch of the driver: one try around the whole turn,
\*   "except Exception as e: size_results['postgresql'] = {'error': str(e)}"
Handling(script, step) ==
    CASE script = "pg" /\ step = "recreate" -> "continue"
      [] script = "pg" /\ step = "read" -> "swallow"
      [] script = "cmp_pg" -> "error_entry"
      [] OTHER -> "raise"

NoTimed == [op |-> "none", raised |-> FALSE, duration |-> 0, error |-> FALSE]

CrudStart(script, faulty, leftover) ==
    [script |-> script, faulty |-> faulty, k |-> 1, pc |-> "recreate", session |-> "idle",
     table |-> leftover, test_data |-> {}, docs_before_delete |-> 0, deleted_count |-> 0,
     docs_after_delete |-> 0, deletion_percentage |-> Quotient(0, 1),
     crud_results |-> << >>, timed |-> NoTimed, status |-> "running"]

\* f"perf_{size}"
PerfPrefix(size) == <<"p", "e", "r", "f">> \o Underscore \o Decimal(size)

\* generate_test_data(size, f"perf_{size}"); old[i]: created_at of the i-th
\* row is more than 300 days back when the DELETE runs
TestData(size, old) == {[id |-> ProductId(PerfPrefix(size), i), old |-> old[i]] : i \in 1..size}

\* a scratch table that is created only if it does not exist
RecreatedIfMissing(table) == table

\* DROP TABLE IF EXISTS performance_test; CREATE TABLE performance_test /
\* performance_collection.delete_many({}) / perf_coll.drop()
Recreated(table) == {}

\* INSERT / insert_many: the primary key rejects an id that is present
InsertAccepted(table, rows) == \A r \in rows : \A q \in table : q.id /= r.id

\* a DELETE that reports its rows and removes none
RemainingAll(table) == table

\* WHERE created_at < NOW() - INTERVAL '300 days' /
\* {"created_at": {"$lt": datetime.now() - timedelta(days=300)}}
AgedOut(table) == {r \in table : r.old}
Remaining(table) == table \ AgedOut(table)

\* the share of the rows that were left
RemainingShare(deleted_count, docs_before_delete) ==
    IF docs_before_delete > deleted_count
    THEN Quotient(docs_before_delete * 100, docs_before_delete - deleted_count)
    ELSE Quotient(0, 1)

\* (deleted_count / docs_before_delete * 100) if docs_before_delete > 0 else 0
DeletionPercentage(deleted_count, docs_before_delete) ==
    IF docs_before_delete > 0 THEN Quotient(deleted_count * 100, docs_before_delete)
    ELSE Quotient(0, 1)

\* the next turn of the loop, or "return crud_results"
NextCrudSize(c) ==
    IF c.k < CrudSizes THEN [c EXCEPT !.k = @ + 1, !.pc = "recreate"]
    ELSE [c EXCEPT !.pc = "end", !.status = "returned"]

\* a database call is answered: a faulty backend may fail any call, and
\* PostgreSQL fails every statement of an aborted transaction
CallAccepted(c, ok) == ok /\ (IsPg(c.script) => c.session = "idle")
Answers(c) == IF c.faulty THEN BOOLEAN ELSE {TRUE}

TimedAt(c, step, raised, duration, error) ==
    IF step \in TimedSteps
    THEN [c EXCEPT !.timed = [op |-> step, raised |-> raised, duration |-> duration,
                              error |-> error]]
    ELSE c

\* the failed statement leaves the PostgreSQL transaction aborted: none of
\* the handlers calls rollback()
CallRaised(c, step) ==
    TimedAt(IF IsPg(c.script) THEN [c EXCEPT !.session = "aborted"] ELSE c,
            step, TRUE, 0, Handling(c.script, step) = "error_entry")

\* create_rate: "size / create_time if create_time > 0 else 0" in the two
\* scripts, "len(...) / create_time" in the driver
CreateRate(script, size, create_time) ==
    IF script \in {"pg", "mongo"} THEN GuardedRate(size, create_time)
    ELSE UnguardedRate(size, create_time)

RateRaised(c, step, dt) == step = "create" /\ CreateRate(c.script, ScaledSize(c.k), dt).raised

\* an exception leaves the step: c is the state it leaves behind
CrudFailed(c, step) ==
    CASE Handling(c.script, step) = "raise" -> [c EXCEPT !.status = "raised", !.pc = "end"]
      [] Handling(c.script, step) = "continue" -> NextCrudSize(c)
      [] Handling(c.script, step) = "swallow" -> [c EXCEPT !.pc = StepAfter(step)]
      [] OTHER ->
           NextCrudSize([c EXCEPT !.crud_results =
                                     Append(@, [size |-> ScaledSize(c.k), error |-> TRUE])])

\* one database call of the loop body, with the statements up to the next
\* call; done holds the effect of the call
CrudCall(step, accepted, done) ==
    /\ crud.script /= "none" /\ crud.status = "running" /\ crud.pc = step
    /\ \E ok \in Answers(crud), dt \in {0, MaxElapsed} :
          crud' = IF ~(CallAccepted(crud, ok) /\ accepted)
                  THEN CrudFailed(CallRaised(crud, step), step)
                  ELSE IF RateRaised(crud, step, dt)
                  THEN CrudFailed(TimedAt(done, step, FALSE, dt,
                                          Handling(crud.script, step) = "error_entry"), step)
                  ELSE [TimedAt(done, step, FALSE, dt, FALSE) EXCEPT !.pc = StepAfter(step)]
    /\ UNCHANGED <<vprobe, prov, battery, run, gen, rate, integrityVars>>

CrudRecreate == CrudCall("recreate", TRUE, [crud EXCEPT !.table = Recreated(@)])

CrudGenerate ==
    /\ crud.script /= "none" /\ crud.status = "running" /\ crud.pc = "generate"
    /\ \E old \in [1..ScaledSize(crud.k) -> BOOLEAN] :
          crud' = [crud EXCEPT !.test_data = TestData(ScaledSize(crud.k), old),
                               !.pc = StepAfter("generate")]
    /\ UNCHANGED <<vprobe, prov, battery, run, gen, rate, integrityVars>>

CrudCreate ==
    CrudCall("create", InsertAccepted(crud.table, crud.test_data),
             [crud EXCEPT !.table = @ \cup crud.test_data])

\* the five read queries
CrudRead == CrudCall("read", TRUE, crud)

\* SET price = price + 10 WHERE category = 'electronics'
CrudNarrowUpdate == CrudCall("narrow_update", TRUE, crud)

\* SET status = 'review_needed' WHERE rating < 3.0
CrudBroadUpdate == CrudCall("broad_update", TRUE, crud)

CrudCountBefore ==
    CrudCall("count_before", TRUE,
             [crud EXCEPT !.docs_before_delete = Cardinality(crud.table)])

CrudDelete ==
    CrudCall("delete", TRUE,
             [crud EXCEPT !.deleted_count = Cardinality(AgedOut(crud.table)),
                          !.table = Remaining(@)])

CrudCountAfter ==
    CrudCall("count_after", TRUE,
             [crud EXCEPT !.docs_after_delete = Cardinality(crud.table),
                          !.deletion_percentage =
                              DeletionPercentage(crud.deleted_count, crud.docs_before_delete)])

\* crud_results[size] = {...}; the driver keeps neither documents_deleted nor
\* deletion_percentage
CrudResult(c) ==
    IF c.script \in {"pg", "mongo"}
    THEN [size |-> ScaledSize(c.k), error |-> FALSE,
          documents_before_delete |-> c.docs_before_delete,
          documents_after_delete |-> c.docs_after_delete,
          documents_deleted |-> c.deleted_count,
          deletion_percentage |-> c.deletion_percentage]
    ELSE [size |-> ScaledSize(c.k), error |-> FALSE,
          docs_before_delete |-> c.docs_before_delete,
          docs_after_delete |-> c.docs_after_delete]

CrudStore ==
    /\ crud.script /= "none" /\ crud.status = "running" /\ crud.pc = "store"
    /\ crud' = NextCrudSize([crud EXCEPT !.crud_results = Append(@, CrudResult(crud))])
    /\ UNCHANGED <<vprobe, prov, battery, run, gen, rate, integrityVars>>

\* a row an earlier run left in performance_test, under the first id of
\* this run
Leftover == {[id |-> ProductId(PerfPrefix(ScaledSize(1)), 1), old |-> FALSE]}

InitCrud ==
    /\ crud \in {CrudStart(script, faulty, leftover) :
                    script \in CrudScripts, faulty \in BOOLEAN, leftover \in {{}, Leftover}}
    /\ vprobe = ProbeOff /\ prov = ProvOff /\ battery = BatteryOff /\ run = RunOff
    /\ gen = GenIdle /\ rate = RateIdle /\ IntegrityOff

NextCrud ==
    \/ CrudRecreate
    \/ CrudGenerate
    \/ CrudCreate
    \/ CrudRead
    \/ CrudNarrowUpdate
    \/ CrudBroadUpdate
    \/ CrudCountBefore
    \/ CrudDelete
    \/ CrudCountAfter
    \/ CrudStore

SpecCrud == InitCrud /\ [][NextCrud]_vars

\* the results stored so far that carry the field f
StoredWith(f) ==
    {crud.crud_results[i] : i \in {j \in 1..Len(crud.crud_results) :
                                      f \in DOMAIN crud.crud_results[j]}}

\* C11: the deletion percentage of every stored result is
\* documents_deleted / documents_before_delete * 100 and lies between 0 and
\* 100 when documents_before_delete > 0, and it is exactly 0 when
\* documents_before_delete is 0, whichever rows the age predicate matched.
DeletionPercentageBounded ==
    /\ \A r \in StoredWith("deletion_percentage") :
          /\ r.documents_before_delete > 0 =>
                /\ r.deletion_percentage =
                      Quotient(r.documents_deleted * 100, r.documents_before_delete)
                /\ 0 <= r.deletion_percentage.num
                /\ r.deletion_percentage.num <= 100 * r.deletion_percentage.den
          /\ r.documents_before_delete = 0 => r.deletion_percentage.num = 0
    /\ \A deleted \in 0..ScaledSize(CrudSizes) : DeletionPercentage(deleted, 0).num = 0

\* a size of which the DELETE removed some rows and left others
PartOfTheRowsDeleted ==
    \E r \in StoredWith("deletion_percentage") :
        0 < r.documents_deleted /\ r.documents_deleted < r.documents_before_delete

\* C12: for every size whose results are stored, documents_after_delete is
\* documents_before_delete minus documents_deleted.
DeleteCountsAddUp ==
    \A r \in StoredWith("documents_deleted") :
        r.documents_after_delete = r.documents_before_delete - r.documents_deleted

\* a size of which the DELETE removed every row
EveryRowDeleted ==
    \E r \in StoredWith("documents_deleted") :
        r.documents_deleted = r.size /\ r.documents_after_delete = 0

\* C16: the sizes are independent: the count taken before the DELETE is the
\* size of the turn, whatever the earlier turns or an earlier run left in
\* the scratch table.
SizesIndependent ==
    /\ \A r \in StoredWith("documents_before_delete") : r.documents_before_delete = r.size
    /\ \A r \in StoredWith("docs_before_delete") : r.docs_before_delete = r.size

\* the last size was stored after the turn before it had left rows behind
LaterSizeAfterRowsLeft ==
    /\ Len(crud.crud_results) = CrudSizes
    /\ \A i \in 1..CrudSizes : ~crud.crud_results[i].error
    /\ \E f \in {"documents_after_delete", "docs_after_delete"} :
          /\ f \in DOMAIN crud.crud_results[CrudSizes - 1]
          /\ crud.crud_results[CrudSizes - 1][f] > 0

\* the result of the k-th size is among the stored ones
ResultStored(c, k) ==
    \E i \in 1..Len(c.crud_results) : c.crud_results[i].size = ScaledSize(k)

\* C15: the sizes are processed in increasing order; within a size the steps
\* follow each other as recreate, generate, CREATE, READ battery, narrow
\* UPDATE, broad UPDATE, count-before, DELETE, count-after, store; and the
\* first step of a size starts only when the result of the size before it
\* is stored.
CrudPhaseOrdered ==
    [][/\ crud'.k \in {crud.k, crud.k + 1}
       /\ crud'.k = crud.k /\ crud'.pc /= "end" =>
             << crud.pc, crud'.pc >> \in
                 { << "recreate", "generate" >>, << "generate", "create" >>,
                   << "create", "read" >>, << "read", "narrow_update" >>,
                   << "narrow_update", "broad_update" >>,
                   << "broad_update", "count_before" >>, << "count_before", "delete" >>,
                   << "delete", "count_after" >>, << "count_after", "store" >> }
       /\ crud'.k = crud.k + 1 => crud'.pc = "recreate" /\ ResultStored(crud', crud.k)]_vars

\* the part that holds: the order of the sizes and of the steps within a size
CrudStepsOrdered ==
    [][/\ crud'.k \in {crud.k, crud.k + 1}
       /\ crud'.k = crud.k /\ crud'.pc /= "end" =>
             \E i \in 1..(Len(CrudSteps) - 1) :
                 crud.pc = CrudSteps[i] /\ crud'.pc = CrudSteps[i + 1]
       /\ crud'.k = crud.k + 1 /\ crud.script /= "pg" => ResultStored(crud', crud.k)]_vars

\* PostgreSQL.py is at the second size and has stored nothing for the first
LaterSizeWithoutEarlierResult ==
    crud.script = "pg" /\ crud.k = 2 /\ ~ResultStored(crud, 1)

\* C14: of every timed database call the recorded duration is not negative,
\* a failure of the call is swallowed where it is measured and shows as an
\* error entry, and an error entry is present exactly when the call raised.
TimedCallsSwallowFailures ==
    crud.timed.op /= "none" =>
        /\ crud.timed.duration >= 0
        /\ crud.timed.raised => crud.status /= "raised"
        /\ crud.timed.error <=> crud.timed.raised

\* the part that holds: no recorded duration is negative
DurationsNotNegative == crud.timed.op /= "none" => crud.timed.duration >= 0

\* insert_many of mongo_test.py raised and the exception left the phase
TimedInsertRaisedThrough ==
    /\ crud.script = "mongo" /\ crud.timed.op = "create" /\ crud.timed.raised
    /\ crud.status = "raised" /\ ~crud.timed.error

\* a read query of PostgreSQL.py raised and left a time of 0 and no error entry
ReadFailureWithoutErrorEntry ==
    /\ crud.script = "pg" /\ crud.timed.op = "read" /\ crud.timed.raised
    /\ crud.status = "running" /\ ~crud.timed.error

(***************************************************************************)
(* test_4_query_flexibility of PostgreSQL.py and mongo_test.py             *)
(***************************************************************************)
\* the entries of "queries"
QueryCount == 6

BatteryStart(script, faulty) ==
    [script |-> script, faulty |-> faulty, i |-> 1, session |-> "idle",
     query_results |-> << >>, total_query_time |-> 0, errored |-> 0,
     avg_query_time |-> Quotient(0, 1), status |-> "running"]

\* the entries of query_results without an "error" key
Succeeded(query_results) ==
    {i \in 1..Len(query_results) : ~query_results[i].error}

\* len([q for q in query_results.values() if "error" not in q]) in
\* PostgreSQL.py, len(queries) in mongo_test.py
Divisor(script, query_results) ==
    IF script = "pg" THEN Cardinality(Succeeded(query_results)) ELSE QueryCount

\* the body of "for query_name, ... in queries": PostgreSQL.py runs the
\* query inside try / except Error and records {"count": 0, "time": 0,
\* "error": str(e)}; the failed statement leaves the transaction aborted;
\* mongo_test.py has no try.  The count of a query that returned is read by
\* nothing and left out.
BatteryQuery ==
    /\ battery.script /= "none" /\ battery.status = "running" /\ battery.i <= QueryCount
    /\ \E ok \in (IF battery.faulty THEN BOOLEAN ELSE {TRUE}), dt \in {0, MaxElapsed} :
          battery' =
             IF ok /\ battery.session = "idle"
             THEN [battery EXCEPT !.i = @ + 1, !.total_query_time = @ + dt,
                                  !.query_results = Append(@, [time |-> dt, error |-> FALSE])]
             ELSE IF battery.script = "pg"
             THEN [battery EXCEPT !.i = @ + 1, !.session = "aborted", !.errored = @ + 1,
                                  !.query_results =
                                      Append(@, [count |-> 0, time |-> 0, error |-> TRUE])]
             ELSE [battery EXCEPT !.errored = @ + 1, !.status = "raised"]
    /\ UNCHANGED <<vprobe, prov, crud, run, gen, rate, integrityVars>>

\* avg_query_time = total_query_time / <divisor>; self.metrics[...] = ...;
\* return query_results.  The division is outside every try.
BatteryAverage ==
    /\ battery.script /= "none" /\ battery.status = "running" /\ battery.i > QueryCount
    /\ battery' =
          IF Divisor(battery.script, battery.query_results) = 0
          THEN [battery EXCEPT !.status = "raised"]
          ELSE [battery EXCEPT !.status = "returned",
                               !.avg_query_time =
                                   Quotient(battery.total_query_time,
                                            Divisor(battery.script, battery.query_results))]
    /\ UNCHANGED <<vprobe, prov, crud, run, gen, rate, integrityVars>>

InitBattery ==
    /\ battery \in {BatteryStart(script, faulty) : script \in {"pg", "mongo"}, faulty \in BOOLEAN}
    /\ vprobe = ProbeOff /\ prov = ProvOff /\ crud = CrudOff /\ run = RunOff
    /\ gen = GenIdle /\ rate = RateIdle /\ IntegrityOff

NextBattery == BatteryQuery \/ BatteryAverage

SpecBattery == InitBattery /\ [][NextBattery]_vars

RECURSIVE SumOfTimes(_, _)
SumOfTimes(query_results, among) ==
    IF among = {} THEN 0
    ELSE LET i == CHOOSE j \in among : TRUE
         IN  query_results[i].time + SumOfTimes(query_results, among \ {i})

\* C13: the stored avg_query_time is the sum of the durations of the queries
\* that succeeded divided by their number; a query that errored adds to
\* neither and is recorded with an error entry.
AverageOverSucceededQueries ==
    /\ battery.status = "returned" =>
          battery.avg_query_time =
              Quotient(SumOfTimes(battery.query_results, Succeeded(battery.query_results)),
                       Cardinality(Succeeded(battery.query_results)))
    /\ battery.errored = Len(battery.query_results)
                            - Cardinality(Succeeded(battery.query_results))

\* the part that holds: the battery of PostgreSQL.py
PgAverageOverSucceededQueries == battery.script = "pg" => AverageOverSucceededQueries

\* a query of mongo_test.py raised: no entry records it
MongoQueryRaisedThrough ==
    battery.script = "mongo" /\ battery.status = "raised" /\ battery.errored = 1

\* PostgreSQL.py stored an average over fewer queries than it ran
PgAverageWithErrors ==
    battery.script = "pg" /\ battery.status = "returned" /\ battery.errored > 0

\* every query of PostgreSQL.py failed and the division raised
PgAverageRaised ==
    battery.script = "pg" /\ battery.status = "raised"

(***************************************************************************)
(* Provisioning and load: the statements that drop, create and fill the    *)
(* schema objects, as the scripts issue them.  A routine is the sequence   *)
(* of its database statements; each statement carries the method it is in  *)
(* (sub), the try block around it (try, 0 for none) and what the handler   *)
(* of that block does:                                                     *)
(*   "pass"            except: pass - go on with the next statement        *)
(*   "leave"           print a warning / store an error entry, go on after *)
(*                     the try block                                       *)
(*   "rollback_leave"  connection.rollback(), go on after the try block    *)
(*   "return"          return 0 - the caller goes on with the next method  *)
(*   "return_false"    return False                                        *)
(*   "raise"           no try: the exception leaves the routine            *)
(***************************************************************************)
\* how often a routine is run in a row
MaxRuns == 3

\* rows of a table that are followed, of the 50 / 100 the loops build
SampleRows == 2

\* width of the counter in f"basic_{i:03d}"
BasicIdWidth == 3

BasicId(prefix, i) == prefix \o Underscore \o ZeroPad(Decimal(i), BasicIdWidth)

Statement(op, obj, on, needs, sub, try, handler) ==
    [op |-> op, obj |-> obj, on |-> on, needs |-> needs, sub |-> sub, try |-> try,
     handler |-> handler]

Drops(names, sub, try, handler) ==
    [i \in 1..Len(names) |-> Statement("drop", names[i], "", {}, sub, try, handler)]

\* every drop in a try of its own: "try: execute(DROP ...) except: pass"
DropsOneByOne(names, sub, first) ==
    [i \in 1..Len(names) |-> Statement("drop", names[i], "", {}, sub, first + i, "pass")]

Creates(names, sub, try, handler) ==
    [i \in 1..Len(names) |->
        Statement("create", names[i][1], names[i][2], names[i][3], sub, try, handler)]

Insert(table, prefix, sub, try, handler) ==
    << Statement("insert", table, prefix, {}, sub, try, handler) >>

Commit(sub, try, handler) == << Statement("commit", "", "", {}, sub, try, handler) >>

Table(name) == << name, "", {} >>
Index(name, table) == << name, table, {} >>

\* PostgreSQL.py clear_data
PgClearData ==
    Drops(<< "product_reviews", "product_variants", "product_analytics", "products_complex",
             "products_enhanced", "products" >>, "clear_data", 1, "leave")
    \o Commit("clear_data", 1, "leave")

\* PostgreSQL.py test_1_basic_schema .. test_3_complex_nested_structures
PgSchemaTests ==
    Creates(<< Table("products"), Index("idx_price", "products"),
               Index("idx_created_at", "products") >>, "test_1", 2, "return")
    \o Commit("test_1", 2, "return")
    \o Insert("products", <<"b", "a", "s", "i", "c">>, "test_1", 0, "raise")
    \o Commit("test_1", 0, "raise")
    \o Creates(<< Table("products_enhanced"), Index("idx_category", "products_enhanced"),
                  Index("idx_brand", "products_enhanced") >>, "test_2", 3, "return")
    \o Commit("test_2", 3, "return")
    \o Insert("products_enhanced", <<"e", "n", "h", "a", "n", "c", "e", "d">>, "test_2", 0, "raise")
    \o Commit("test_2", 0, "raise")
    \o Creates(<< Table("products_complex"),
                  << "product_reviews", "", {"products_complex"} >>,
                  << "product_variants", "", {"products_complex"} >>,
                  << "product_analytics", "", {"products_complex"} >>,
                  Index("idx_products_complex_category", "products_complex"),
                  Index("idx_products_complex_price", "products_complex"),
                  Index("idx_product_reviews_product_id", "product_reviews"),
                  Index("idx_product_reviews_rating", "product_reviews"),
                  Index("idx_product_variants_product_id", "product_variants"),
                  Index("idx_product_variants_sku", "product_variants") >>,
               "test_3", 4, "return")
    \o Commit("test_3", 4, "return")
    \o Insert("products_complex", <<"c", "o", "m", "p", "l", "e", "x">>, "test_3", 0, "raise")
    \o Commit("test_3", 0, "raise")

\* PostgreSQL.py setup_database
PgSetupDatabase ==
    DropsOneByOne(<< "products", "products_enhanced", "products_complex", "product_reviews",
                     "product_variants", "product_analytics", "performance_test",
                     "customers", "orders", "order_items", "payments", "inventory" >>,
                  "setup_database", 1)
    \o Commit("setup_database", 1, "leave")

\* "DROP TYPE IF EXISTS <name> CASCADE" and "CREATE TYPE <name> AS ENUM" in
\* one try, whose handler rolls back
EnumType(name, try) ==
    Drops(<< name >>, "setup_validation_schemas", try, "rollback_leave")
    \o Creates(<< Table(name) >>, "setup_validation_schemas", try, "rollback_leave")

\* PostgreSQL.py setup_validation_schemas
PgValidationSchemas ==
    DropsOneByOne(<< "payments", "order_items", "orders", "customers", "inventory" >>,
                  "setup_validation_schemas", 0)
    \o EnumType("customer_status", 6) \o EnumType("order_status", 7)
    \o EnumType("payment_method", 8) \o EnumType("payment_status", 9)
    \o Creates(<< << "customers", "", {"customer_status"} >>,
                  Table("inventory"),
                  << "orders", "", {"customers", "order_status"} >>,
                  << "order_items", "", {"orders", "inventory"} >>,
                  << "payments", "", {"orders", "customers", "payment_method",
                                      "payment_status"} >> >>,
               "setup_validation_schemas", 10, "return_false")
    \o Commit("setup_validation_schemas", 10, "return_false")

\* mongo_test.py clear_data, test_1 .. test_3
MongoObjective1 ==
    << Statement("clear", "products", "", {}, "clear_data", 0, "raise") >>
    \o Insert("products", <<"b", "a", "s", "i", "c">>, "test_1", 0, "raise")
    \o Insert("products", <<"e", "n", "h", "a", "n", "c", "e", "d">>, "test_2", 0, "raise")
    \o Insert("products", <<"c", "o", "m", "p", "l", "e", "x">>, "test_3", 0, "raise")

\* mongo_test.py setup_validation_schemas: the drops and the creates share
\* one try
MongoValidationSchemas ==
    Drops(<< "customers", "orders", "payments", "inventory" >>,
          "setup_validation_schemas", 1, "return_false")
    \o Creates(<< Table("customers"), Table("orders"), Table("payments"),
                  Table("inventory") >>, "setup_validation_schemas", 1, "return_false")

\* database_comparison.py clear_data, MongoDB part and PostgreSQL part
ComparisonMongoClear ==
    Drops(<< "products", "performance_test", "customers", "orders", "payments",
             "inventory" >>, "clear_data", 1, "leave")

ComparisonPgClear ==
    DropsOneByOne(<< "payments", "order_items", "orders", "customers", "inventory",
                     "product_analytics", "product_variants", "product_reviews",
                     "products_complex", "products_enhanced", "products",
                     "performance_test" >>, "clear_data", 1)
    \o Commit("clear_data", 1, "leave")

\* database_comparison.py run_objective_1_schema_flexibility, MongoDB part
ComparisonMongoObjective1 ==
    Insert("products", <<"b", "a", "s", "i", "c">>, "objective_1", 0, "raise")
    \o Insert("products", <<"e", "n", "h", "a", "n", "c", "e", "d">>, "objective_1", 0, "raise")

\* database_comparison.py run_objective_1_schema_flexibility, PostgreSQL part
ComparisonPgObjective1 ==
    Creates(<< Table("products"), Index("idx_price", "products"),
               Index("idx_created_at", "products") >>, "objective_1", 20, "leave")
    \o Commit("objective_1", 20, "leave")
    \o Insert("products", <<"b", "a", "s", "i", "c">>, "objective_1", 20, "leave")
    \o Commit("objective_1", 20, "leave")
    \o Creates(<< Table("products_enhanced"), Index("idx_category", "products_enhanced") >>,
               "objective_1", 21, "leave")
    \o Commit("objective_1", 21, "leave")
    \o Insert("products_enhanced", <<"e", "n", "h", "a", "n", "c", "e", "d">>,
              "objective_1", 21, "leave")
    \o Commit("objective_1", 21, "leave")

\* the routines: what is run when the routine is repeated
Routines ==
    [pg_objective_1      |-> PgClearData \o PgSchemaTests,
     pg_setup_database   |-> PgSetupDatabase,
     pg_validation       |-> PgValidationSchemas,
     mongo_objective_1   |-> MongoObjective1,
     mongo_validation    |-> MongoValidationSchemas,
     cmp_mongo_run       |-> ComparisonMongoClear \o ComparisonMongoObjective1,
     cmp_pg_run          |-> ComparisonPgClear \o ComparisonPgObjective1,
     cmp_mongo_objective_1 |-> ComparisonMongoObjective1,
     cmp_pg_objective_1  |-> ComparisonPgObjective1]

PgRoutines == {"pg_objective_1", "pg_setup_database", "pg_validation", "cmp_pg_run",
               "cmp_pg_objective_1"}

NoObjects == [objects |-> {}, rows |-> {}]

ProvStart(routine, faulty) ==
    [script |-> routine, faulty |-> faulty, n |-> 1, pc |-> 1, session |-> "idle",
     db |-> NoObjects, committed |-> NoObjects, once |-> NoObjects,
     failed |-> {}, drop_failed |-> FALSE, creates |-> 0, create_failed |-> FALSE,
     result |-> "none", status |-> "running"]

Program(p) == Routines[p.script]
Current(p) == Program(p)[p.pc]
Exists(db, name) == \E o \in db.objects : o.name = name

\* the rows an insert statement sends
RowsOf(s) == {<< s.obj, BasicId(s.on, i) >> : i \in 1..SampleRows}

\* the backend rejects the statement: PostgreSQL rejects every statement of
\* an aborted transaction, a CREATE of a name that exists or that refers to
\* an object that does not, and an INSERT of a key that is present or into a
\* table that is not; MongoDB rejects create_collection of a collection that
\* exists and insert_many of an _id that is present
Rejected(p, s) ==
    IF p.script \in PgRoutines
    THEN \/ p.session = "aborted" /\ s.op /= "commit"
         \/ s.op = "create" /\ (\/ Exists(p.db, s.obj)
                                \/ s.on /= "" /\ ~Exists(p.db, s.on)
                                \/ \E n \in s.needs : ~Exists(p.db, n))
         \/ s.op = "insert" /\ (~Exists(p.db, s.obj) \/ RowsOf(s) \cap p.db.rows /= {})
    ELSE \/ s.op = "create" /\ Exists(p.db, s.obj)
         \/ s.op = "insert" /\ RowsOf(s) \cap p.db.rows /= {}

\* DROP ... CASCADE / drop(): the object, the indexes on it and its rows
Dropped(db, name) ==
    [objects |-> {o \in db.objects : o.name /= name /\ o.on /= name},
     rows |-> {r \in db.rows : r[1] /= name}]

\* the content after the statement was executed
Executed(p, s) ==
    CASE s.op = "drop" -> Dropped(p.db, s.obj)
      [] s.op = "clear" -> [p.db EXCEPT !.rows = {r \in @ : r[1] /= s.obj}]
      [] s.op = "create" -> [p.db EXCEPT !.objects = @ \cup {[name |-> s.obj, on |-> s.on]}]
      [] s.op = "insert" ->
            [objects |-> p.db.objects \cup {[name |-> s.obj, on |-> ""]},
             rows |-> p.db.rows \cup RowsOf(s)]
      [] OTHER -> IF p.session = "aborted" THEN p.committed ELSE p.db

\* the first statement after pc that is outside the try block (field "try")
\* or the method (field "sub") of the statement at pc
After(program, at, field) ==
    IF \E j \in (at + 1)..Len(program) : program[j][field] /= program[at][field]
    THEN CHOOSE j \in (at + 1)..Len(program) :
            /\ program[j][field] /= program[at][field]
            /\ \A i \in (at + 1)..(j - 1) : program[i][field] = program[at][field]
    ELSE Len(program) + 1

\* the statement at pc returned
StatementDone(p, s) ==
    [p EXCEPT !.pc = @ + 1, !.db = Executed(p, s),
              !.session = IF s.op = "commit" THEN "idle" ELSE @,
              !.committed = IF s.op = "commit" \/ p.script \notin PgRoutines
                            THEN Executed(p, s) ELSE @,
              !.creates = IF s.op = "create" THEN @ + 1 ELSE @]

\* the statement at pc raised: p holds what was noted of it
StatementRaised(p, s) ==
    CASE s.handler = "pass" -> [p EXCEPT !.pc = @ + 1]
      [] s.handler = "leave" -> [p EXCEPT !.pc = After(Program(p), p.pc, "try")]
      [] s.handler = "rollback_leave" ->
            [p EXCEPT !.pc = After(Program(p), p.pc, "try"), !.db = p.committed,
                      !.session = "idle"]
      [] s.handler = "return" -> [p EXCEPT !.pc = After(Program(p), p.pc, "sub")]
      [] s.handler = "return_false" ->
            [p EXCEPT !.pc = Len(Program(p)) + 1, !.result = "failed"]
      [] OTHER -> [p EXCEPT !.status = "raised"]

Noted(p, s) ==
    [p EXCEPT !.failed = @ \cup {<< p.n, p.pc >>},
              !.session = IF p.script \in PgRoutines THEN "aborted" ELSE @,
              !.drop_failed = @ \/ s.op = "drop",
              !.creates = IF s.op = "create" THEN @ + 1 ELSE @,
              !.create_failed = @ \/ s.op = "create"]

\* one statement of the routine
ProvStatement ==
    /\ prov.script /= "none" /\ prov.status = "running" /\ prov.pc <= Len(Program(prov))
    /\ \E ok \in (IF prov.faulty /\ Current(prov).op = "drop" THEN BOOLEAN ELSE {TRUE}) :
          prov' = IF ok /\ ~Rejected(prov, Current(prov))
                  THEN StatementDone(prov, Current(prov))
                  ELSE StatementRaised(Noted(prov, Current(prov)), Current(prov))
    /\ UNCHANGED <<vprobe, battery, crud, run, gen, rate, integrityVars>>

\* the routine returned: it is run again
ProvAgain ==
    /\ prov.script /= "none" /\ prov.status = "running" /\ prov.pc = Len(Program(prov)) + 1
    /\ prov' = IF prov.n < MaxRuns
               THEN [prov EXCEPT !.n = @ + 1, !.pc = 1, !.drop_failed = FALSE, !.creates = 0,
                                 !.create_failed = FALSE, !.result = "none",
                                 !.once = IF prov.n = 1 THEN prov.db ELSE @]
               ELSE [prov EXCEPT !.status = "returned"]
    /\ UNCHANGED <<vprobe, battery, crud, run, gen, rate, integrityVars>>

InitProv ==
    /\ prov \in {ProvStart(routine, faulty) : routine \in DOMAIN Routines, faulty \in BOOLEAN}
    /\ vprobe = ProbeOff /\ battery = BatteryOff /\ crud = CrudOff /\ run = RunOff
    /\ gen = GenIdle /\ rate = RateIdle /\ IntegrityOff

NextProv == ProvStatement \/ ProvAgain

SpecProv == InitProv /\ [][NextProv]_vars

AtEnd(p) == p.pc = Len(Program(p)) + 1

\* C17: run N >= 1 times in a row against a backend that fails nothing of
\* its own, a routine leaves the schema objects and row identifiers that
\* one run leaves, and no statement of a later run fails because an object
\* or identifier of an earlier run still exists.
ProvisioningIdempotent ==
    ~prov.faulty =>
        /\ \A f \in prov.failed : f[1] = 1
        /\ prov.status /= "raised"
        /\ prov.n > 1 /\ AtEnd(prov) => prov.db = prov.once

\* the part that holds: the routines that begin with their clearing step
ClearedProvisioningIdempotent ==
    prov.script \notin {"cmp_mongo_objective_1", "cmp_pg_objective_1"} =>
        ProvisioningIdempotent

\* the second run_objective_1_schema_flexibility of database_comparison.py
\* found "products" in place: insert_many raised on the first _id
SecondLoadRaised ==
    /\ prov.script = "cmp_mongo_objective_1" /\ ~prov.faulty
    /\ prov.n = 2 /\ prov.status = "raised"

\* ... and CREATE TABLE products failed
SecondCreateFailed ==
    /\ prov.script = "cmp_pg_objective_1" /\ ~prov.faulty
    /\ << 2, 1 >> \in prov.failed

\* a cleared routine ended its last run with objects and rows in place
ThirdRunSameContent ==
    /\ prov.script = "pg_objective_1" /\ ~prov.faulty /\ prov.n = MaxRuns /\ AtEnd(prov)
    /\ prov.db.rows /= {} /\ prov.db = prov.once

\* the routine has create statements
HasCreates(p) == \E i \in 1..Len(Program(p)) : Program(p)[i].op = "create"

\* C18: a failed drop does not end provisioning: create statements are
\* still attempted after it, and failure is reported only when a create
\* statement failed.
DropFailuresDoNotPropagate ==
    prov.drop_failed /\ AtEnd(prov) =>
        /\ HasCreates(prov) => prov.creates > 0
        /\ prov.result = "failed" => prov.create_failed
        /\ prov.status /= "raised"

\* the part that holds: every routine but setup_validation_schemas of
\* mongo_test.py
OtherDropFailuresDoNotPropagate ==
    prov.script /= "mongo_validation" => DropFailuresDoNotPropagate

\* drop() of mongo_test.py raised: setup_validation_schemas returned False
\* and attempted no create_collection
DropFailureReported ==
    /\ prov.script = "mongo_validation" /\ prov.drop_failed /\ AtEnd(prov)
    /\ prov.result = "failed" /\ prov.creates = 0

\* a DROP TABLE of PostgreSQL.py failed and a CREATE failed in its wake
CreateFailedAfterDrop ==
    /\ prov.script = "pg_validation" /\ prov.drop_failed /\ AtEnd(prov)
    /\ prov.result = "failed" /\ prov.create_failed

\* the events of a trace that are one of ops and ended as ok says
EventsOf(trace, ops, ok) == {i \in 1..Len(trace) : trace[i].op \in ops /\ trace[i].ok = ok}

\* a call of process_order_transaction has just returned or raised
OrderProcessed == tx' /= tx /\ tx'.kind \in {"order", "rollback_probe"}

\* either every step succeeded, one commit took effect and nothing was
\* undone, or a step failed, one rollback / abort was made and no commit
\* took effect
OneTerminalState(trace) ==
    \/ /\ Cardinality(EventsOf(trace, {"commit"}, TRUE)) = 1
       /\ EventsOf(trace, {"rollback", "abort"}, TRUE) = {}
       /\ \A i \in 1..Len(trace) : trace[i].ok
    \/ /\ EventsOf(trace, {"commit"}, TRUE) = {}
       /\ Cardinality(EventsOf(trace, {"rollback", "abort"}, TRUE)) = 1
       /\ \/ \E i \in 1..Len(trace) : ~trace[i].ok
          \/ EventsOf(trace, {"raise"}, TRUE) /= {}

\* C19: every call of the order-processing transaction ends in exactly one
\* terminal state, COMMITTED (every step succeeded, one commit, no rollback)
\* or ROLLED_BACK (a step failed, one rollback or abort, no commit), and
\* none returns with its transaction still open.
TransactionsReachOneTerminalState ==
    [][OrderProcessed => OneTerminalState(tx'.trace) /\ store'.session = "idle"]_vars

\* the part that holds: the calls whose commit request did not fail
AnsweredCommitsReachOneTerminalState ==
    [][OrderProcessed /\ tx'.outcome /= "commit_failed" =>
          OneTerminalState(tx'.trace) /\ store'.session = "idle"]_vars

\* commit_transaction() of mongo_test.py failed on leaving the with block:
\* the call was counted as a success and nothing was committed or aborted
CommitFailedUnaborted ==
    /\ cfg.backend = "mongo" /\ tx.kind = "order" /\ tx.outcome = "commit_failed"
    /\ EventsOf(tx.trace, {"rollback", "abort"}, TRUE) = {}

\* the rollback probe ended rolled back
RollbackProbeRolledBack ==
    /\ tx.kind = "rollback_probe" /\ tx.outcome \in {"rolled_back", "aborted"}
    /\ OneTerminalState(tx.trace)

(***************************************************************************)
(* The customer records of the validation probes, one by one:              *)
(* test_data_validation of PostgreSQL.py and mongo_test.py, and the two    *)
(* branches of run_objective_3 of database_comparison.py.                  *)
(***************************************************************************)
\* run_objective_3, PostgreSQL branch: CREATE TABLE customers
ComparisonPgCustomerViolations(d, c) ==
    Rule("varchar_customer_id", Len(c.customer_id) <= 20)
    \cup Rule("pk_customer_id", \A r \in d.customers : r.customer_id /= c.customer_id)
    \cup Rule("unique_email", \A r \in d.customers : r.email /= c.email)
    \cup Rule("chk_customer_id", MatchesCustomerId(c.customer_id))
    \cup Rule("chk_email", MatchesEmail(c.email))
    \cup Rule("chk_name_length", Len(c.name) >= 2 /\ Len(c.name) <= 100)

\* run_objective_3, MongoDB branch: customer_validator; no index is created
ComparisonMongoCustomerViolations(c) ==
    Rule("required_customer_id", Has(c, "customer_id"))
    \cup Rule("required_email", Has(c, "email"))
    \cup Rule("required_name", Has(c, "name"))
    \cup Rule("pattern_customer_id", Has(c, "customer_id") => MatchesCustomerId(c.customer_id))
    \cup Rule("pattern_email", Has(c, "email") => MatchesEmail(c.email))
    \cup Rule("length_name", Has(c, "name") => (Len(c.name) >= 2 /\ Len(c.name) <= 100))

ComparisonCustomer(cid, email, name) == [customer_id |-> cid, email |-> email, name |-> name]

\* valid_customer of run_objective_3, the same in both branches
ComparisonValidCustomer == ComparisonCustomer(CustomerKey(1), Lit.TestEmail, Lit.TestCustomer)

\* invalid_customers / invalid_inserts of run_objective_3
ComparisonInvalidCustomers ==
    << ComparisonCustomer(Lit.INVALID, Lit.TestEmail, Lit.Test),
       ComparisonCustomer(CustomerKey(2), Lit.NotAnEmail, Lit.Test),
       ComparisonCustomer(CustomerKey(3), Lit.Test2Email, Lit.ShortName) >>

ProbeValid(script) ==
    IF script \in {"pg", "mongo"} THEN ValidCustomer ELSE ComparisonValidCustomer

ProbeInvalid(script) ==
    IF script \in {"pg", "mongo"} THEN InvalidCustomers(script) ELSE ComparisonInvalidCustomers

ProbeViolations(script, d, c) ==
    CASE script = "pg" -> PgCustomerViolations(d, c)
      [] script = "mongo" -> MongoCustomerViolations(c)
      [] script = "cmp_pg" -> ComparisonPgCustomerViolations(d, c)
      [] script = "cmp_mongo" -> ComparisonMongoCustomerViolations(c)

\* the scripts probe after create_sample_ecommerce_data, the driver right
\* after it has dropped and created its tables or collections
ProbeDb(script) ==
    IF script \in {"pg", "mongo"}
    THEN [EmptyDb EXCEPT !.customers = SampleCustomerRows(SampleCustomers)]
    ELSE EmptyDb

ProbeStart(script, faulty) ==
    [script |-> script, faulty |-> faulty, pc |-> "valid_customer", i |-> 0,
     store |-> [db |-> ProbeDb(script), committed |-> ProbeDb(script), session |-> "idle"],
     valid_insertions |-> 0, blocked_insertions |-> 0, accepted |-> FALSE,
     broken |-> {}, aborted |-> FALSE]

\* try: execute(INSERT); commit()  /  try: insert_one(doc); of the except
\* branches only the driver's PostgreSQL loop over invalid_inserts rolls back
Submitted(p, ok, d2, rolls_back) ==
    LET r == ExecuteAndCommit(p.store, IF IsPg(p.script) THEN "pg" ELSE "mongo", ok, d2)
    IN  [ok |-> r.ok,
         store |-> IF ~r.ok /\ rolls_back THEN PgRollback(r.store) ELSE r.store]

ProbeAnswers(p, c) ==
    IF p.faulty THEN BOOLEAN ELSE {ProbeViolations(p.script, p.store.db, c) = {}}

ProbeValidCustomer ==
    /\ vprobe.script /= "none"
    /\ vprobe.pc = "valid_customer"
    /\ \E ok \in ProbeAnswers(vprobe, ProbeValid(vprobe.script)) :
          LET r == Submitted(vprobe, ok,
                             InsertCustomer(vprobe.store.db, ProbeValid(vprobe.script)), FALSE)
          IN  vprobe' = [vprobe EXCEPT !.store = r.store,
                                       !.valid_insertions = IF r.ok THEN @ + 1 ELSE @,
                                       !.pc = "invalid_customers"]
    /\ UNCHANGED <<prov, battery, crud, run, gen, rate, integrityVars>>

ProbeInvalidCustomer ==
    /\ vprobe.script /= "none"
    /\ vprobe.pc = "invalid_customers"
    /\ LET c == ProbeInvalid(vprobe.script)[vprobe.i + 1]
       IN  \E ok \in ProbeAnswers(vprobe, c) :
              LET r == Submitted(vprobe, ok, InsertCustomer(vprobe.store.db, c),
                                 vprobe.script = "cmp_pg")
              IN  vprobe' = [vprobe EXCEPT
                      !.store = r.store,
                      !.i = @ + 1,
                      !.accepted = r.ok,
                      !.blocked_insertions = IF r.ok THEN @ ELSE @ + 1,
                      !.broken = ProbeViolations(vprobe.script, vprobe.store.db, c),
                      !.aborted = vprobe.store.session = "aborted",
                      !.pc = IF vprobe.i + 1 = Len(ProbeInvalid(vprobe.script))
                             THEN "done" ELSE "invalid_customers"]
    /\ UNCHANGED <<prov, battery, crud, run, gen, rate, integrityVars>>

InitProbe ==
    /\ \E script \in CrudScripts, faulty \in BOOLEAN : vprobe = ProbeStart(script, faulty)
    /\ prov = ProvOff /\ battery = BatteryOff /\ crud = CrudOff /\ run = RunOff
    /\ gen = GenIdle /\ rate = RateIdle
    /\ IntegrityOff

NextProbe == ProbeValidCustomer \/ ProbeInvalidCustomer

SpecProbe == InitProbe /\ [][NextProbe]_vars

\* "required" is one keyword of a validator, whatever fields it lists
DeclaredRules(broken) ==
    {IF rule \in {"required_customer_id", "required_email", "required_name",
                  "required_created_at"} THEN "required" ELSE rule : rule \in broken}

\* a known-invalid record has just been submitted to a backend that answers
\* by its declared rules and holds the known-valid record
InvalidSubmitted ==
    /\ vprobe.script /= "none"
    /\ ~vprobe.faulty
    /\ vprobe.i > 0
    /\ vprobe.valid_insertions = 1

\* C20: every known-invalid customer record of a validation probe violates
\* exactly one declared rule in the state of the backend in which it is
\* submitted, the known-valid record being in it.
InvalidRecordsBreakOneRule ==
    InvalidSubmitted => Cardinality(DeclaredRules(vprobe.broken)) = 1

\* what holds: the records of the two scripts and of the driver's MongoDB
\* branch each break one declared rule
ScriptRecordsBreakOneRule ==
    InvalidSubmitted /\ vprobe.script /= "cmp_pg"
        => Cardinality(DeclaredRules(vprobe.broken)) = 1

\* the driver's second and third PostgreSQL records break one rule each
LaterComparisonRecordsBreakOneRule ==
    InvalidSubmitted /\ vprobe.script = "cmp_pg" /\ vprobe.i > 1
        => Cardinality(vprobe.broken) = 1

\* the driver's first PostgreSQL record carries the e-mail of the valid one
FirstComparisonRecordBreaksTwoRules ==
    /\ InvalidSubmitted
    /\ vprobe.script = "cmp_pg"
    /\ vprobe.i = 1
    /\ vprobe.broken = {"chk_customer_id", "unique_email"}

\* PostgreSQL.py submits its later records in the transaction the first
\* rejection aborted
SubmittedInAbortedTransaction ==
    InvalidSubmitted /\ vprobe.script = "pg" /\ vprobe.aborted

\* the probe ended with all three records blocked
AllInvalidBlocked ==
    InvalidSubmitted /\ vprobe.pc = "done" /\ vprobe.blocked_insertions = 3

(***************************************************************************)
(* test_data_validation: what one probe does to the three tallies          *)
(***************************************************************************)
TallyOf(v) ==
    << v.valid_insertions, v.invalid_insertions_blocked, Len(v.validation_errors) >>

TallySum(v) == v.valid_insertions + v.invalid_insertions_blocked + Len(v.validation_errors)

\* the tallies of v2 are those of v1 but for one of them, which is one more
OneTallyMoved(v1, v2) ==
    \E k \in 1..3 :
        /\ TallyOf(v2)[k] = TallyOf(v1)[k] + 1
        /\ \A j \in (1..3) \ {k} : TallyOf(v2)[j] = TallyOf(v1)[j]

ValidationProbePcs == {"valid_customer", "invalid_customers", "valid_order", "invalid_order"}

ProbeMovesOneTally ==
    pc \in ValidationProbePcs => OneTallyMoved(validation_results, validation_results')

\* C21: each probe of test_data_validation changes exactly one of
\* valid_insertions, invalid_insertions_blocked and validation_errors, by
\* one, whatever the backend answers; so the three add up to the number of
\* probes submitted, six once the validation probe is over.
EachProbeMovesOneTally ==
    /\ [][ProbeMovesOneTally]_vars
    /\ [](TallySum(validation_results) = Len(obs.outcomes))
    /\ [](ValidationDone => TallySum(validation_results) = 6)

\* the probe is over and each of the three tallies has moved
EveryTallyMoved ==
    /\ ValidationDone
    /\ validation_results.valid_insertions = 1
    /\ validation_results.invalid_insertions_blocked = 3
    /\ Len(validation_results.validation_errors) = 2

(***************************************************************************)
(* The PostgreSQL session: autocommit is off, so a failed statement leaves *)
(* the transaction aborted until rollback() is called                      *)
(***************************************************************************)
\* the step about to be taken issues its first statement in an aborted
\* transaction
IssuedInAbortedTransaction == cfg.backend = "pg" /\ store.session = "aborted"

\* C22: PostgreSQL.py never issues a statement while the transaction of its
\* connection is aborted: after every database error it catches it calls
\* rollback() before the next statement, in every phase.
PgSessionDiscipline == [][~IssuedInAbortedTransaction]_vars

\* what holds: from the invalid-order probe on, whose handler rolls back
PgSessionDisciplineAfterValidation ==
    [][PhaseOf(pc) \notin {"provisioning", "validation"} => ~IssuedInAbortedTransaction]_vars

\* the backend answers by its rules, the first invalid customer was rejected
\* and the second is about to be submitted in the aborted transaction
SecondInvalidCustomerInAbortedTransaction ==
    /\ cfg.lax = "none"
    /\ IssuedInAbortedTransaction
    /\ pc = "invalid_customers"
    /\ idx = 2

(***************************************************************************)
(* process_order_transaction: what successful_transactions counts          *)
(***************************************************************************)
CountedAsSuccessful ==
    /\ PhaseOf(pc) = "transactions"
    /\ transaction_results'.successful_transactions
          = transaction_results.successful_transactions + 1

\* C23: successful_transactions is incremented, and the elapsed time
\* recorded, only for a call whose commit has succeeded; a transaction
\* whose commit fails is never counted as successful.
SuccessfulCountsCommitted ==
    [][CountedAsSuccessful => tx'.outcome = "committed"]_vars

\* what holds: PostgreSQL.py commits inside the try, before it counts
PgSuccessfulCountsCommitted ==
    [][CountedAsSuccessful /\ cfg.backend = "pg" => tx'.outcome = "committed"]_vars

\* every call that was not counted as successful was counted as failed
UncountedCallsFailed ==
    [][PhaseOf(pc) = "transactions" /\ ~CountedAsSuccessful
          => /\ tx'.outcome \in {"rolled_back", "aborted"}
             /\ transaction_results'.failed_transactions
                   = transaction_results.failed_transactions + 1]_vars

\* mongo_test.py counted a transaction whose commit then failed
CommitFailedCountedSuccessful ==
    /\ cfg.backend = "mongo"
    /\ tx.outcome = "commit_failed"
    /\ tx.kind = "order"
    /\ transaction_results.successful_transactions = 1
    /\ transaction_results.transaction_times = 1
    /\ \A r \in store.committed.orders : r.order_id /= tx.order_id

(***************************************************************************)
(* test_multi_document_transactions: the tallies after each call           *)
(***************************************************************************)
\* the calls of process_order_transaction made so far
AttemptsMade ==
    CASE pc \in {"setup", "sample", "returned_none"} \cup ValidationProbePcs -> 0
      [] pc = "transactions" -> idx - 1
      [] pc = "rollback_probe" -> TxOrderCount
      [] OTHER -> TxOrderCount + 1

\* C24: after any number of order-processing attempts failed_transactions
\* equals rollback_tests, transaction_times has one entry per successful
\* transaction, and successful_transactions + failed_transactions is the
\* number of attempts made.
TransactionTalliesConsistent ==
    /\ transaction_results.failed_transactions = transaction_results.rollback_tests
    /\ transaction_results.transaction_times = transaction_results.successful_transactions
    /\ transaction_results.successful_transactions
          + transaction_results.failed_transactions = AttemptsMade

\* all four calls were made, two of them counted as failed
TwoOfFourAttemptsFailed ==
    /\ pc = "integrity"
    /\ transaction_results.successful_transactions = 2
    /\ transaction_results.failed_transactions = 2
    /\ transaction_results.rollback_tests = 2

(***************************************************************************)
(* process_order_transaction: the reservations against the committed       *)
(* orders                                                                  *)
(***************************************************************************)
\* the orders test_multi_document_transactions submits
ProcessedOrderIds == {TxOrderKey(i) : i \in 1..TxOrderCount} \cup {Lit.ORD_ROLLBACK}

RECURSIVE SumOfQuantities(_)
SumOfQuantities(rows) ==
    IF rows = {} THEN 0
    ELSE LET r == CHOOSE x \in rows : TRUE
         IN  r.quantity + SumOfQuantities(rows \ {r})

\* the units of a product in the committed orders of the transaction probe
OrderedUnits(d, pid) ==
    SumOfQuantities({r \in d.items : r.product_id = pid /\ r.order_id \in ProcessedOrderIds})

\* C25: after any sequence of order-processing transactions, committed or
\* rolled back, every inventory item has 0 <= reserved_quantity <=
\* stock_quantity, and reserved_quantity is the sum of the quantities of
\* that product in the committed orders of these transactions.
InventoryNeverOverReserved ==
    \A r \in store.committed.inventory :
        /\ 0 <= r.reserved_quantity
        /\ r.reserved_quantity <= r.stock_quantity
        /\ r.reserved_quantity = OrderedUnits(store.committed, r.product_id)

\* an order was committed and holds its units, and the call after it was
\* undone after it had reserved stock
ReservedForCommittedOrdersOnly ==
    /\ pc \in {"transactions", "rollback_probe"}
    /\ tx.outcome \in {"rolled_back", "aborted"}
    /\ \E k \in 1..Len(tx.trace) : tx.trace[k] = Event("reserve", TRUE)
    /\ \E r \in store.committed.inventory :
          r.product_id = ProductKey(1) /\ r.reserved_quantity > 0

(***************************************************************************)
(* The rollback probe: what its transaction had written when it failed     *)
(***************************************************************************)
\* the writes the last call had made when it ended
WritesMade(trace) == {k \in 1..Len(trace) : trace[k].write /\ trace[k].ok}

RollbackProbeEnded == tx.kind = "rollback_probe"

\* C26: in the rollback probe the failing transaction has made at least one
\* write (a reservation, the order or the payment) before the step that
\* fails; the insufficient-stock check does not fail before any write.
RollbackProbeUndoesAWrite ==
    RollbackProbeEnded => WritesMade(tx.trace) /= {}

\* what holds instead: the rollback probe ends undone without a write made
RollbackProbeWritesNothing ==
    RollbackProbeEnded =>
        /\ WritesMade(tx.trace) = {}
        /\ tx.outcome \in {"rolled_back", "aborted"}

\* the backend answered by its rules and the stock check of the only item
\* raised before any write
StockCheckRaisedBeforeAnyWrite ==
    /\ RollbackProbeEnded
    /\ cfg.lax = "none"
    /\ \E k \in 1..Len(tx.trace) : tx.trace[k].op = "raise"
    /\ WritesMade(tx.trace) = {}

(***************************************************************************)
(* test_data_validation of PostgreSQL.py: the rejected invalid order       *)
(***************************************************************************)
RowsOfOrder(d, oid) ==
    {r \in d.orders : r.order_id = oid} \cup {r \in d.items : r.order_id = oid}

\* the invalid-order probe of PostgreSQL.py has just counted a rejection
InvalidOrderRejected ==
    /\ cfg.backend = "pg"
    /\ pc = "invalid_order"
    /\ validation_results'.invalid_insertions_blocked
          = validation_results.invalid_insertions_blocked + 1

\* C27: when PostgreSQL.py's invalid-order probe ends in a rejection, the
\* parent order ORD_87654321 is rolled back with the rejected item: no
\* orders row and no order_items row of it exists afterwards, and the rows
\* committed before the probe are all still there.
RejectedOrderLeavesNoRows ==
    [][InvalidOrderRejected =>
          /\ RowsOfOrder(store'.db, InvalidOrder.order_id) = {}
          /\ store'.db = store.committed
          /\ store'.committed = store.committed
          /\ store'.session = "idle"]_vars

\* the valid order had been committed, so the invalid order was submitted in
\* a fresh transaction and it was rejected and rolled back
InvalidOrderRolledBack ==
    /\ cfg.backend = "pg"
    /\ pc = "transactions"
    /\ idx = 1
    /\ validation_results.valid_insertions = 2
    /\ ~obs.outcomes[Len(obs.outcomes)].accepted
    /\ RowsOfOrder(store.db, ValidOrder.order_id) /= {}
    /\ RowsOfOrder(store.db, InvalidOrder.order_id) = {}

(***************************************************************************)
(* run_objective_3_data_integrity: the two gates before the four probes    *)
(***************************************************************************)
\* the place of a position in the sequence provisioning, validation,
\* transactions, referential integrity, cost of consistency
PhaseRank(p) ==
    CASE p \in {"setup", "sample", "returned_none"} -> 0
      [] PhaseOf(p) = "validation" -> 1
      [] PhaseOf(p) = "transactions" -> 2
      [] PhaseOf(p) = "integrity" -> 3
      [] OTHER -> 4

NoProbeExecuted ==
    /\ validation_results = NoValidation
    /\ transaction_results = NoTransactions
    /\ integrity_results = NoIntegrity(cfg.backend)
    /\ performance_comparison = NoComparison
    /\ obs = NoObservation
    /\ tx = NoTx

\* one step of the phase: the probes are entered through both gates only,
\* and one after the other
GatedStep ==
    /\ pc = "setup" => pc' \in {"sample", "returned_none"}
    /\ pc = "sample" => pc' \in {"valid_customer", "returned_none"}
    /\ pc = "returned_none" => pc' = pc
    /\ pc = "sample" /\ pc' = "returned_none" =>
          store'.committed.customers /= SampleCustomerRows(SampleCustomers)
    /\ PhaseRank(pc') \in {PhaseRank(pc), PhaseRank(pc) + 1}
    /\ PhaseRank(pc') = 1 /\ PhaseRank(pc) = 0 =>
          /\ pc = "sample"
          /\ pc' = "valid_customer"
          /\ store'.committed.customers = SampleCustomerRows(SampleCustomers)
          /\ store'.committed.inventory /= {}

AllProbesReached ==
    /\ pc = "done"
    /\ validation_results /= NoValidation
    /\ transaction_results /= NoTransactions

(***************************************************************************)
(* test_4_query_flexibility: whether the battery comes to its end          *)
(***************************************************************************)
\* C29: the query battery always completes and stores query_times and
\* avg_query_time, for every combination of queries that succeed and
\* queries that fail, the one in which every query fails included.
BatteryAlwaysCompletes == battery.status /= "raised"

\* what holds: the battery completes when no query fails, and the battery
\* of PostgreSQL.py when at least one query succeeds
BatteryCompletesWithASuccess ==
    battery.status = "raised" =>
        \/ battery.script = "mongo" /\ battery.errored = 1
        \/ /\ battery.script = "pg"
           /\ Succeeded(battery.query_results) = {}
           /\ Len(battery.query_results) = QueryCount

\* every query of PostgreSQL.py failed: six error entries and the division
\* by their zero successes raised before anything was stored
EveryQueryFailed ==
    /\ battery.script = "pg"
    /\ battery.status = "raised"
    /\ battery.errored = QueryCount
    /\ battery.total_query_time = 0

\* the first query of mongo_test.py failed and left the battery
FirstMongoQueryRaised ==
    /\ battery.script = "mongo"
    /\ battery.status = "raised"
    /\ battery.query_results = << >>

====
